---- MODULE Spec2Model ----
(***************************************************************************)
(* Guardrails middleware: the GuardrailsEngine pipelines                   *)
(* (guardrails/core/engine.py), the GuardedAgent wrapper                   *)
(* (guardrails/core/wrapper.py), the result type                           *)
(* (guardrails/utils/result.py), the LengthValidator input guardrail       *)
(* (guardrails/input_guardrails/length_validator.py) and the PIIFilter     *)
(* output guardrail (guardrails/output_guardrails/pii_filter.py).          *)
(*                                                                         *)
(* A Python str is a sequence of fragments (TLA+ strings).  A text that    *)
(* the program inspects character by character (user input, agent          *)
(* response) is written one character per fragment; a formatted message    *)
(* is the concatenation of its literal pieces and its interpolated values. *)
(* An Optional value is None (the empty tuple) or Some(v) (a 1-tuple).     *)
(* A dict is the sequence of its <<key, value>> items in insertion order.  *)
(***************************************************************************)
EXTENDS Integers, Sequences, FiniteSets, TLC

VARIABLES
    enabled,            \* GuardrailsEngine.enabled
    fail_fast,          \* GuardrailsEngine.fail_fast
    input_guardrails,   \* GuardrailsEngine.input_guardrails
    output_guardrails,  \* GuardrailsEngine.output_guardrails
    guarded,            \* TRUE once wrap_agent has returned a GuardedAgent
    call,               \* what the latest GuardedAgent.chat call did
    probe,              \* what the latest direct call of a component did
    added,              \* the guardrails passed to the add methods so far
    wrapped,            \* the GuardedAgents one engine has returned, in order
    chatting            \* the position in wrapped of the agent whose chat ran last

vars == <<enabled, fail_fast, input_guardrails, output_guardrails, guarded, call, probe, added, wrapped, chatting>>

---------------------------------------------------------------------------
\* Optional values, strings and dicts

None == <<>>

Some(v) == <<v>>

Max(S) == CHOOSE x \in S : \A y \in S : y <= x

Range(seq) == {seq[i] : i \in 1..Len(seq)}

\* sub occurs in seq as a contiguous piece (Python `sub in seq` on strings)
Contains(seq, sub) ==
    \E i \in 1..(Len(seq) - Len(sub) + 1) : SubSeq(seq, i, i + Len(sub) - 1) = sub

\* Python `a or b` on two strings: a when it is non-empty, else b
StrOr(a, b) == IF a # <<>> THEN a ELSE b

\* characters str.strip() removes from both ends
Whitespace == {" ", "\t", "\n"}

RECURSIVE lstrip(_)
lstrip(s) ==
    IF s # <<>> /\ Head(s) \in Whitespace THEN lstrip(Tail(s)) ELSE s

RECURSIVE rstrip(_)
rstrip(s) ==
    IF s # <<>> /\ s[Len(s)] \in Whitespace
    THEN rstrip(SubSeq(s, 1, Len(s) - 1))
    ELSE s

\* str.strip() that leaves trailing whitespace in place
strip_LeftOnly(s) == lstrip(s)

\* str.strip()
strip(s) == rstrip(lstrip(s))

\* s[:n] taking one character too many
Prefix_OneMore(s, n) == SubSeq(s, 1, IF n + 1 < Len(s) THEN n + 1 ELSE Len(s))

\* s[:n] for n >= 0
Prefix(s, n) == SubSeq(s, 1, IF n < Len(s) THEN n ELSE Len(s))

DigitChar == <<"0", "1", "2", "3", "4", "5", "6", "7", "8", "9">>

\* str(n) for a natural number n: its decimal digits
RECURSIVE IntToStr(_)
IntToStr(n) ==
    IF n < 10
    THEN <<DigitChar[n + 1]>>
    ELSE IntToStr(n \div 10) \o <<DigitChar[(n % 10) + 1]>>

\* "; ".join(messages)
RECURSIVE Join(_)
Join(messages) ==
    IF messages = <<>> THEN <<>>
    ELSE IF Len(messages) = 1 THEN messages[1]
    ELSE messages[1] \o <<"; ">> \o Join(Tail(messages))

EmptyDict == <<>>

DictKeys(d) == {d[i][1] : i \in 1..Len(d)}

DictGet(d, k) == d[CHOOSE i \in 1..Len(d) : d[i][1] = k][2]

\* d[k] = v
DictSet(d, k, v) ==
    IF k \in DictKeys(d)
    THEN [i \in 1..Len(d) |-> IF d[i][1] = k THEN <<k, v>> ELSE d[i]]
    ELSE Append(d, <<k, v>>)

\* d.update(other)
RECURSIVE DictUpdate(_, _)
DictUpdate(d, other) ==
    IF other = <<>> THEN d
    ELSE DictUpdate(DictSet(d, Head(other)[1], Head(other)[2]), Tail(other))

---------------------------------------------------------------------------
\* guardrails/utils/result.py

PASSED == "passed"

FAILED == "failed"

WARNING == "warning"

BLOCKED == "blocked"

GuardrailStatus == {PASSED, FAILED, WARNING, BLOCKED}

\* GuardrailResult(status, message, modified_content, metadata); confidence is
\* never set by the program and stays None
GuardrailResult(status, message, modified_content, metadata) ==
    [status |-> status, message |-> message,
     modified_content |-> modified_content, metadata |-> metadata]

is_success(result) == result.status = PASSED

is_failure(result) == result.status \in {FAILED, BLOCKED}

content(result) ==
    IF result.modified_content # None THEN result.modified_content[1] ELSE <<>>

\* What a call of a guardrail's validate / filter does: it returns a
\* GuardrailResult or raises an exception e with str(e) = text
Returned(result) == [raised |-> FALSE, result |-> Some(result), text |-> <<>>]

Raised(text) == [raised |-> TRUE, result |-> None, text |-> text]

---------------------------------------------------------------------------
\* guardrails/core/base.py

is_enabled(guardrail) == guardrail.enabled

---------------------------------------------------------------------------
\* guardrails/input_guardrails/length_validator.py

LengthValidatorGuardrail(name, on, min_length, max_length, truncate, truncate_suffix) ==
    [name |-> name, enabled |-> on, kind |-> "length",
     cfg |-> [min_length |-> min_length, max_length |-> max_length,
              truncate |-> truncate, truncate_suffix |-> truncate_suffix]]

\* the configurations __init__ accepts
LengthConfigValid(cfg) ==
    /\ cfg.min_length >= 0
    /\ cfg.max_length > 0
    /\ cfg.min_length <= cfg.max_length

\* LengthValidatorGuardrail.validate on a text that is not None
LengthValidate(cfg, input_text) ==
    LET text_length == Len(strip(input_text))
        max_content_length == cfg.max_length - Len(cfg.truncate_suffix)
        truncated_text == Prefix(input_text, max_content_length) \o cfg.truncate_suffix
    IN  IF text_length < cfg.min_length
        THEN GuardrailResult(FAILED,
                 <<"Input too short: ">> \o IntToStr(text_length)
                     \o <<" chars (minimum: ">> \o IntToStr(cfg.min_length) \o <<")">>,
                 None,
                 Some(<<<<"original_length", text_length>>,
                        <<"min_length", cfg.min_length>>>>))
        ELSE IF text_length > cfg.max_length
        THEN IF cfg.truncate
             THEN IF max_content_length > 0
                  THEN GuardrailResult(WARNING,
                           <<"Input truncated: ">> \o IntToStr(text_length)
                               \o <<" -> ">> \o IntToStr(Len(truncated_text))
                               \o <<" chars">>,
                           Some(truncated_text),
                           Some(<<<<"original_length", text_length>>,
                                  <<"truncated_length", Len(truncated_text)>>,
                                  <<"max_length", cfg.max_length>>,
                                  <<"truncated", TRUE>>>>))
                  ELSE GuardrailResult(FAILED,
                           <<"Input too long and cannot be truncated safely: ">>
                               \o IntToStr(text_length) \o <<" chars">>,
                           None, None)
             ELSE GuardrailResult(FAILED,
                      <<"Input too long: ">> \o IntToStr(text_length)
                          \o <<" chars (maximum: ">> \o IntToStr(cfg.max_length) \o <<")">>,
                      None,
                      Some(<<<<"original_length", text_length>>,
                             <<"max_length", cfg.max_length>>>>))
        ELSE GuardrailResult(PASSED,
                 <<"Length validation passed: ">> \o IntToStr(text_length) \o <<" chars">>,
                 Some(input_text),
                 Some(<<<<"length", text_length>>>>))

---------------------------------------------------------------------------
\* Regular expressions as guardrails/output_guardrails/pii_filter.py uses them
\* (Python re: backtracking, greedy repetition, leftmost match).  Offsets are
\* Python's: offset p is between text[p] and text[p + 1] of the sequence.

Lower ==
    {"a", "b", "c", "d", "e", "f", "g", "h", "i", "j", "k", "l", "m",
     "n", "o", "p", "q", "r", "s", "t", "u", "v", "w", "x", "y", "z"}

Upper ==
    {"A", "B", "C", "D", "E", "F", "G", "H", "I", "J", "K", "L", "M",
     "N", "O", "P", "Q", "R", "S", "T", "U", "V", "W", "X", "Y", "Z"}

Digits == {"0", "1", "2", "3", "4", "5", "6", "7", "8", "9"}

\* \w
WordChars == Lower \cup Upper \cup Digits \cup {"_"}

\* \s
SpaceChars == {" ", "\t", "\n", "\r", "\f"}

\* The patterns of the filter are flat: a sequence of items, each \b or a
\* character class with a repetition count.

\* \b
ReB == [op |-> "b"]

\* a character class repeated greedily, at least min and at most max times
\* (max -1: no limit)
ReRep(chars, min, max) == [op |-> "set", chars |-> chars, min |-> min, max |-> max]

\* one character of the set
ReSet(chars) == ReRep(chars, 1, 1)

IsWordAt(text, p) == p >= 0 /\ p < Len(text) /\ text[p + 1] \in WordChars

WordBoundary(text, pos) == IsWordAt(text, pos - 1) # IsWordAt(text, pos)

\* how many characters of the class follow offset pos, max at most
RunLength(item, text, pos) ==
    LET limit == IF item.max = -1 \/ item.max > Len(text) - pos
                 THEN Len(text) - pos ELSE item.max
    IN  Max({k \in 0..limit : \A j \in 1..k : text[pos + j] \in item.chars})

\* the offset at which the match of items[i..] that the backtracking matcher
\* finds first from offset pos ends, -1 if there is none: a repetition takes
\* as many characters as it can and gives them back one by one
RECURSIVE MatchEnd(_, _, _, _)
MatchEnd(items, i, text, pos) ==
    IF i > Len(items) THEN pos
    ELSE IF items[i].op = "b"
    THEN IF WordBoundary(text, pos) THEN MatchEnd(items, i + 1, text, pos) ELSE -1
    ELSE LET counts == {k \in items[i].min..RunLength(items[i], text, pos) :
                           MatchEnd(items, i + 1, text, pos + k) # -1}
         IN  IF counts = {} THEN -1
             ELSE MatchEnd(items, i + 1, text, pos + Max(counts))

\* pattern.finditer(text) from offset pos on: the non-overlapping matches,
\* leftmost first, as spans [start, end)
RECURSIVE finditer(_, _, _)
finditer(re, text, pos) ==
    IF pos > Len(text) THEN <<>>
    ELSE LET end == MatchEnd(re, 1, text, pos)
         IN  IF end = -1 THEN finditer(re, text, pos + 1)
             ELSE <<[start |-> pos, end |-> end]>>
                      \o finditer(re, text, IF end > pos THEN end ELSE pos + 1)

---------------------------------------------------------------------------
\* guardrails/output_guardrails/pii_filter.py

PIIFilterGuardrail(name, on, mask_emails, mask_phones, mask_credit_cards, mask_ssn, replacement, strict_mode) ==
    [name |-> name, enabled |-> on, kind |-> "pii",
     cfg |-> [mask_emails |-> mask_emails, mask_phones |-> mask_phones,
              mask_credit_cards |-> mask_credit_cards, mask_ssn |-> mask_ssn,
              replacement |-> replacement, strict_mode |-> strict_mode]]

\* \d{n}
ReDigits(n) == ReRep(Digits, n, n)

\* r'\b[A-Za-z0-9._%+-]+@[A-Za-z0-9.-]+\.[A-Z|a-z]{2,}\b' with re.IGNORECASE
email_pattern ==
    <<ReB,
      ReRep(Lower \cup Upper \cup Digits \cup {".", "_", "%", "+", "-"}, 1, -1),
      ReSet({"@"}),
      ReRep(Lower \cup Upper \cup Digits \cup {".", "-"}, 1, -1),
      ReSet({"."}),
      ReRep(Lower \cup Upper \cup {"|"}, 2, -1),
      ReB>>

phone_patterns ==
    <<\* r'\b\d{3}-\d{3}-\d{4}\b'
      <<ReB, ReDigits(3), ReSet({"-"}), ReDigits(3), ReSet({"-"}), ReDigits(4), ReB>>,
      \* r'\b\(\d{3}\)\s*\d{3}-\d{4}\b'
      <<ReB, ReSet({"("}), ReDigits(3), ReSet({")"}), ReRep(SpaceChars, 0, -1),
              ReDigits(3), ReSet({"-"}), ReDigits(4), ReB>>,
      \* r'\b\d{3}\.\d{3}\.\d{4}\b'
      <<ReB, ReDigits(3), ReSet({"."}), ReDigits(3), ReSet({"."}), ReDigits(4), ReB>>,
      \* r'\b\d{10}\b'
      <<ReB, ReDigits(10), ReB>>>>

\* r'\b\d{4}[-\s]?\d{4}[-\s]?\d{4}[-\s]?\d{4}\b'
cc_pattern ==
    <<ReB, ReDigits(4), ReRep({"-"} \cup SpaceChars, 0, 1),
            ReDigits(4), ReRep({"-"} \cup SpaceChars, 0, 1),
            ReDigits(4), ReRep({"-"} \cup SpaceChars, 0, 1),
            ReDigits(4), ReB>>

ssn_patterns ==
    <<\* r'\b\d{3}-\d{2}-\d{4}\b'
      <<ReB, ReDigits(3), ReSet({"-"}), ReDigits(2), ReSet({"-"}), ReDigits(4), ReB>>,
      \* r'\b\d{9}\b'
      <<ReB, ReDigits(9), ReB>>>>

\* the (pii_type, pattern, description) of the i-th pattern of each family
NumberedPatterns(pii_type, patterns, label) ==
    [i \in 1..Len(patterns) |->
        [type |-> pii_type, pattern |-> patterns[i],
         description |-> <<label, " (format ">> \o IntToStr(i) \o <<")">>]]

\* PIIFilterGuardrail._build_patterns
build_patterns(cfg) ==
    (IF cfg.mask_emails
     THEN <<[type |-> "email", pattern |-> email_pattern,
             description |-> <<"Email address">>]>>
     ELSE <<>>)
    \o (IF cfg.mask_phones
        THEN NumberedPatterns("phone", phone_patterns, "Phone number")
        ELSE <<>>)
    \o (IF cfg.mask_credit_cards
        THEN <<[type |-> "credit_card", pattern |-> cc_pattern,
                description |-> <<"Credit card number">>]>>
        ELSE <<>>)
    \o (IF cfg.mask_ssn
        THEN NumberedPatterns("ssn", ssn_patterns, "Social Security Number")
        ELSE <<>>)

\* the detections appended for the matches (spans) of one pattern
MatchDetections(p, text, spans) ==
    [k \in 1..Len(spans) |->
        [type |-> p.type, description |-> p.description,
         text |-> SubSeq(text, spans[k].start + 1, spans[k].end),
         start |-> spans[k].start, end |-> spans[k].end]]

\* the detections of one pattern, one per match
PatternDetections(p, text) == MatchDetections(p, text, finditer(p.pattern, text, 0))

\* PIIFilterGuardrail._detect_pii with the patterns from position i on
RECURSIVE DetectFrom(_, _, _)
DetectFrom(patterns, i, text) ==
    IF i > Len(patterns) THEN <<>>
    ELSE PatternDetections(patterns[i], text) \o DetectFrom(patterns, i + 1, text)

detect_pii(cfg, text) == DetectFrom(build_patterns(cfg), 1, text)

\* sorted(detections, key=lambda x: x["start"], reverse=True): a stable sort,
\* detections with the same start keep their order
InsertByStartDesc(first, rest) ==
    LET before == {k \in 0..Len(rest) : \A j \in 1..k : rest[j].start > first.start}
        n == Max(before)
    IN  SubSeq(rest, 1, n) \o <<first>> \o SubSeq(rest, n + 1, Len(rest))

\* the detections left in the order they were found
SortByStartDesc_Unsorted(detections) == detections

RECURSIVE SortByStartDesc(_)
SortByStartDesc(detections) ==
    IF detections = <<>> THEN <<>>
    ELSE InsertByStartDesc(Head(detections), SortByStartDesc(Tail(detections)))

\* s[n:] for n >= 0
Suffix(s, n) == SubSeq(s, (IF n < Len(s) THEN n ELSE Len(s)) + 1, Len(s))

\* the loop of _mask_pii over the sorted detections
RECURSIVE MaskEach(_, _, _)
MaskEach(masked_text, sorted_detections, replacement) ==
    IF sorted_detections = <<>> THEN masked_text
    ELSE MaskEach(Prefix(masked_text, Head(sorted_detections).start) \o replacement
                      \o Suffix(masked_text, Head(sorted_detections).end),
                  Tail(sorted_detections), replacement)

\* PIIFilterGuardrail._mask_pii
mask_pii(cfg, text, detections) ==
    MaskEach(text, SortByStartDesc(detections), cfg.replacement)

\* list(set(d["type"] for d in detections)): the distinct types.  The order
\* of a Python set of strings is fixed per process but not by the program;
\* here the types come in the order of their first detection.
AddType(types, type) ==
    IF type \in {types[i] : i \in 1..Len(types)} THEN types ELSE Append(types, type)

RECURSIVE DistinctTypes(_)
DistinctTypes(detections) ==
    IF detections = <<>> THEN <<>>
    ELSE AddType(DistinctTypes(SubSeq(detections, 1, Len(detections) - 1)),
                 detections[Len(detections)].type)

CountOfType(detections, pii_type) ==
    Cardinality({i \in 1..Len(detections) : detections[i].type = pii_type})

\* ', '.join(pii_types)
RECURSIVE JoinTypes(_)
JoinTypes(pii_types) ==
    IF pii_types = <<>> THEN <<>>
    ELSE IF Len(pii_types) = 1 THEN <<pii_types[1]>>
    ELSE <<pii_types[1], ", ">> \o JoinTypes(Tail(pii_types))

\* the metadata of a result that reports detections
FoundMetadata(detections, pii_types) ==
    <<<<"pii_detected", TRUE>>,
      <<"pii_count", Len(detections)>>,
      <<"pii_types", pii_types>>,
      <<"pii_summary", [i \in 1..Len(pii_types) |->
                          <<pii_types[i], CountOfType(detections, pii_types[i])>>]>>,
      <<"detections", detections>>>>

\* filter masking the text in strict mode as well
OnDetections_StrictMasks(cfg, output_text, detections, pii_types) ==
    GuardrailResult(WARNING,
        <<"PII masked in output: ">> \o IntToStr(Len(detections))
            \o <<" instances of ">> \o JoinTypes(pii_types),
        Some(mask_pii(cfg, output_text, detections)),
        Some(Append(FoundMetadata(detections, pii_types), <<"masked", TRUE>>)))

\* the `if self.strict_mode:` statement of filter: PII was detected
OnDetections(cfg, output_text, detections, pii_types) ==
    IF cfg.strict_mode
    THEN GuardrailResult(BLOCKED,
             <<"Response blocked due to PII detection: ">> \o JoinTypes(pii_types),
             None, Some(FoundMetadata(detections, pii_types)))
    ELSE GuardrailResult(WARNING,
             <<"PII masked in output: ">> \o IntToStr(Len(detections))
                 \o <<" instances of ">> \o JoinTypes(pii_types),
             Some(mask_pii(cfg, output_text, detections)),
             Some(Append(FoundMetadata(detections, pii_types), <<"masked", TRUE>>)))

\* filter once `detections = self._detect_pii(output_text)` is known
FilterDetections(cfg, output_text, detections) ==
    IF detections = <<>>
    THEN GuardrailResult(PASSED, <<"No PII detected in output">>, Some(output_text),
             Some(<<<<"pii_detected", FALSE>>, <<"pii_count", 0>>>>))
    ELSE OnDetections(cfg, output_text, detections, DistinctTypes(detections))

\* PIIFilterGuardrail.filter on a text that is not None
PIIFilter(cfg, output_text) ==
    FilterDetections(cfg, output_text, detect_pii(cfg, output_text))

---------------------------------------------------------------------------
\* guardrails/core/base.py: InputGuardrail.validate and OutputGuardrail.filter
\* are abstract; an application supplies its own subclasses.  The subclasses
\* considered here, by what their check does with the text it is given:
\*   "raise"  raises Exception("boom")
\*   "blank"  returns PASSED, rewriting the text to the empty string
\*   "tag"    returns WARNING, rewriting the text to text + "!"
\*   "note"   returns PASSED with no rewritten content and no metadata
\*   "block"  returns BLOCKED, carrying text + "!" as modified content

CustomGuardrail(name, on, script) ==
    [name |-> name, enabled |-> on, kind |-> "custom", cfg |-> [script |-> script]]

CustomCheck(cfg, text) ==
    CASE cfg.script = "raise" -> Raised(<<"boom">>)
      [] cfg.script = "blank" ->
            Returned(GuardrailResult(PASSED, <<"sanitized">>, Some(<<>>),
                                     Some(<<<<"sanitized", TRUE>>>>)))
      [] cfg.script = "tag" ->
            Returned(GuardrailResult(WARNING, <<"tagged">>, Some(text \o <<"!">>),
                                     Some(<<<<"length", Len(text) + 1>>>>)))
      [] cfg.script = "note" ->
            Returned(GuardrailResult(PASSED, <<"noted">>, None, None))
      [] cfg.script = "block" ->
            Returned(GuardrailResult(BLOCKED, <<"blocked">>, Some(text \o <<"!">>),
                                     Some(<<<<"blocked", TRUE>>>>)))

\* guardrail.validate(current_text, metadata)
validate(guardrail, input_text) ==
    CASE guardrail.kind = "length" -> Returned(LengthValidate(guardrail.cfg, input_text))
      [] guardrail.kind = "custom" -> CustomCheck(guardrail.cfg, input_text)

\* guardrail.filter(current_text, input_text, metadata)
filter(guardrail, output_text, input_text) ==
    CASE guardrail.kind = "pii" -> Returned(PIIFilter(guardrail.cfg, output_text))
      [] guardrail.kind = "custom" -> CustomCheck(guardrail.cfg, output_text)

---------------------------------------------------------------------------
\* guardrails/core/engine.py

\* the local variables of a pipeline run before its first guardrail; calls
\* observes the run (one entry per guardrail invocation) and returned holds
\* the result of a return from inside the loop
LoopStart(text) ==
    [current_text |-> text, combined_metadata |-> EmptyDict, messages |-> <<>>,
     has_failures |-> FALSE, calls |-> <<>>, returned |-> None]

\* one invocation of a guardrail's check, as the pipeline observes it
Invocation(i, text, input_text, out) ==
    [index |-> i, text |-> text, input_text |-> input_text, out |-> out]

\* what a pipeline run hands back, with the invocations it made
PipelineRun(result, calls) == [result |-> result, calls |-> calls]

\* the failure branch without the fail_fast return: every failure is recorded
\* and the loop goes on
OnFailure_NeverStops(ff, guardrail, result, st) ==
    [st EXCEPT !.has_failures = TRUE,
               !.messages = Append(@, <<guardrail.name, ": ">> \o result.message)]

\* the failure branch adopting the failing result's content under collect-all
OnFailure_AdoptsContent(ff, guardrail, result, st) ==
    IF ff
    THEN [st EXCEPT !.has_failures = TRUE, !.returned = Some(result)]
    ELSE [st EXCEPT !.has_failures = TRUE,
                    !.current_text =
                        IF result.modified_content # None
                        THEN result.modified_content[1] ELSE @,
                    !.messages = Append(@, <<guardrail.name, ": ">> \o result.message)]

\* `if result.is_failure:` branch of the loop body
OnFailure(ff, guardrail, result, st) ==
    IF ff
    THEN [st EXCEPT !.has_failures = TRUE, !.returned = Some(result)]
    ELSE [st EXCEPT !.has_failures = TRUE,
                    !.messages = Append(@, <<guardrail.name, ": ">> \o result.message)]

\* the success branch without `current_text = result.modified_content`
OnSuccess_KeepsText(guardrail, result, st) ==
    [st EXCEPT !.combined_metadata =
                   IF result.metadata # None /\ result.metadata[1] # EmptyDict
                   THEN DictUpdate(@, result.metadata[1]) ELSE @,
               !.messages = Append(@, <<guardrail.name, ": ">> \o result.message)]

\* `else:` branch of the loop body: the result is not a failure
OnSuccess(guardrail, result, st) ==
    [st EXCEPT !.current_text =
                   IF result.modified_content # None
                   THEN result.modified_content[1] ELSE @,
               !.combined_metadata =
                   IF result.metadata # None /\ result.metadata[1] # EmptyDict
                   THEN DictUpdate(@, result.metadata[1]) ELSE @,
               !.messages = Append(@, <<guardrail.name, ": ">> \o result.message)]

\* an except branch that swallows the exception and goes on
OnException_Swallows(side, ff, guardrail, text, st) == st

\* `except Exception as e:` branch of the loop body, text is str(e)
OnException(side, ff, guardrail, text, st) ==
    LET error_msg == <<"Error in ", side, " guardrail ", guardrail.name, ": ">> \o text
    IN  IF ff
        THEN [st EXCEPT !.has_failures = TRUE,
                        !.returned = Some(GuardrailResult(FAILED, error_msg, None, None))]
        ELSE [st EXCEPT !.has_failures = TRUE, !.messages = Append(@, error_msg)]

\* the loop body once the guardrail's check has returned or raised (out)
OnOutcome(side, guardrail, i, input_text, ff, st, out) ==
    LET seen == [st EXCEPT !.calls =
                    Append(@, Invocation(i, st.current_text, input_text, out))]
    IN  IF out.raised
        THEN OnException(side, ff, guardrail, out.text, seen)
        ELSE IF is_failure(out.result[1])
        THEN OnFailure(ff, guardrail, out.result[1], seen)
        ELSE OnSuccess(guardrail, out.result[1], seen)

\* the body of `for guardrail in self.input_guardrails:` (output_guardrails)
\* for the guardrail at position i
Iteration(side, guardrail, i, input_text, ff, st) ==
    IF ~is_enabled(guardrail)
    THEN st
    ELSE OnOutcome(side, guardrail, i, input_text, ff, st,
                   IF side = "input"
                   THEN validate(guardrail, st.current_text)
                   ELSE filter(guardrail, st.current_text, input_text))

\* the return after the loop
Finish(side, st) ==
    GuardrailResult(
        IF st.has_failures THEN FAILED ELSE PASSED,
        IF st.messages # <<>> THEN Join(st.messages)
        ELSE <<"All ", side, " guardrails passed">>,
        Some(st.current_text),
        Some(st.combined_metadata))

\* the loop from position i on, and the return that ends the run; side is
\* "input" or "output", ff the engine's fail_fast, st the locals
RECURSIVE RunGuardrails(_, _, _, _, _, _)
RunGuardrails(side, guardrails, i, input_text, ff, st) ==
    IF st.returned # None
    THEN PipelineRun(st.returned[1], st.calls)
    ELSE IF i > Len(guardrails)
    THEN PipelineRun(Finish(side, st), st.calls)
    ELSE RunGuardrails(side, guardrails, i + 1, input_text, ff,
                       Iteration(side, guardrails[i], i, input_text, ff, st))

\* the early return of a disabled engine
EngineDisabled(text) ==
    PipelineRun(GuardrailResult(PASSED, <<"Guardrails engine disabled">>, Some(text), None),
                <<>>)

\* an input pipeline without the `if not self.enabled:` return
apply_input_guardrails_IgnoresEnabled(on, ff, guardrails, input_text) ==
    RunGuardrails("input", guardrails, 1, <<>>, ff, LoopStart(input_text))

apply_input_guardrails(on, ff, guardrails, input_text) ==
    IF ~on THEN EngineDisabled(input_text)
    ELSE RunGuardrails("input", guardrails, 1, <<>>, ff, LoopStart(input_text))

apply_output_guardrails(on, ff, guardrails, output_text, input_text) ==
    IF ~on THEN EngineDisabled(output_text)
    ELSE RunGuardrails("output", guardrails, 1, input_text, ff, LoopStart(output_text))

---------------------------------------------------------------------------
\* The wrapped agent, as the adapter's chat sees it: a call returns a text
\* or raises an exception of some class with str(e) = text

AgentReturns(text) == [raised |-> FALSE, value |-> text, type |-> "", text |-> <<>>]

AgentRaises(type, text) == [raised |-> TRUE, value |-> <<>>, type |-> type, text |-> text]

\* the exception classes that occur, each with the classes it is an instance of
ExceptionClasses ==
    [ValueError |-> {"ValueError", "Exception"},
     RuntimeError |-> {"RuntimeError", "Exception"},
     NotImplementedError |-> {"NotImplementedError", "RuntimeError", "Exception"},
     TypeError |-> {"TypeError", "Exception"}]

\* isinstance(e, classes)
isinstance(e, classes) == ExceptionClasses[e.type] \cap classes # {}

Exception(type, text) == [type |-> type, text |-> text]

---------------------------------------------------------------------------
\* guardrails/core/wrapper.py

\* no chat call has been made yet
NoCall ==
    [status |-> "none", user_input |-> None, steps |-> <<>>,
     input_run |-> None, adapter_arg |-> None, agent |-> None,
     output_run |-> None, response |-> None, error |-> None]

\* a test of the input result that lets a Blocked result through
InputBlocked_FailedOnly(input_result) == input_result.status = FAILED

\* `if input_result.is_failure:`
InputBlocked(input_result) == is_failure(input_result)

\* `processed_input = input_result.content or user_input`
ProcessedInput(input_result, user_input) == StrOr(content(input_result), user_input)

\* a test of the output result that lets a Blocked result through
OutputBlocked_FailedOnly(output_result) == output_result.status = FAILED

\* `if output_result.is_failure:`
OutputBlocked(output_result) == is_failure(output_result)

\* `final_response = output_result.content or agent_response`
FinalResponse(output_result, agent_response) ==
    StrOr(content(output_result), agent_response)

\* the except clause of chat: e is the exception that left the try block
ChatExcept(e) ==
    IF isinstance(e, {"ValueError", "RuntimeError"})
    THEN e
    ELSE Exception("RuntimeError", <<"Agent execution failed: ">> \o e.text)

\* `input_result = self.engine.apply_input_guardrails(user_input, metadata)`
RunInputStep(rec, user_input, input_run) ==
    [rec EXCEPT !.user_input = Some(user_input),
                !.steps = Append(@, "input_guardrails"),
                !.input_run = Some(input_run)]

\* an adapter step that calls the agent a second time when the first call raised
CallAdapterStep_Retry(rec, processed_input, agent) ==
    [rec EXCEPT !.steps = IF agent.raised
                          THEN Append(Append(@, "adapter"), "adapter")
                          ELSE Append(@, "adapter"),
                !.adapter_arg = Some(processed_input),
                !.agent = Some(agent)]

\* `agent_response = self.agent.chat(processed_input, **kwargs)`
CallAdapterStep(rec, processed_input, agent) ==
    [rec EXCEPT !.steps = Append(@, "adapter"),
                !.adapter_arg = Some(processed_input),
                !.agent = Some(agent)]

\* `output_result = self.engine.apply_output_guardrails(agent_response, user_input, metadata)`
RunOutputStep(rec, output_run) ==
    [rec EXCEPT !.steps = Append(@, "output_guardrails"),
                !.output_run = Some(output_run)]

\* chat from `if output_result.is_failure:` on; called is the record of the
\* call so far
AfterOutput(called, agent_response, output_run) ==
    IF OutputBlocked(output_run.result)
    THEN [RunOutputStep(called, output_run) EXCEPT
             !.status = "raised",
             !.error = Some(ChatExcept(Exception("RuntimeError",
                           <<"Output blocked by guardrails: ">> \o output_run.result.message)))]
    ELSE [RunOutputStep(called, output_run) EXCEPT
             !.status = "returned",
             !.response = Some(FinalResponse(output_run.result, agent_response))]

\* chat handing the output pipeline the text the adapter was called with
AfterAdapter_ProcessedContext(called, on, ff, out_guardrails, user_input, agent) ==
    IF agent.raised
    THEN [called EXCEPT
             !.status = "raised",
             !.error = Some(ChatExcept(Exception(agent.type, agent.text)))]
    ELSE AfterOutput(called, agent.value,
                     apply_output_guardrails(on, ff, out_guardrails, agent.value,
                                             called.adapter_arg[1]))

\* chat once the adapter has been called: the agent raised or returned
AfterAdapter(called, on, ff, out_guardrails, user_input, agent) ==
    IF agent.raised
    THEN [called EXCEPT
             !.status = "raised",
             !.error = Some(ChatExcept(Exception(agent.type, agent.text)))]
    ELSE AfterOutput(called, agent.value,
                     apply_output_guardrails(on, ff, out_guardrails, agent.value, user_input))

\* chat from `if input_result.is_failure:` on
AfterInput(on, ff, out_guardrails, user_input, agent, input_run) ==
    IF InputBlocked(input_run.result)
    THEN [RunInputStep(NoCall, user_input, input_run) EXCEPT
             !.status = "raised",
             !.error = Some(Exception("ValueError",
                           <<"Input blocked by guardrails: ">> \o input_run.result.message))]
    ELSE AfterAdapter(CallAdapterStep(RunInputStep(NoCall, user_input, input_run),
                                      ProcessedInput(input_run.result, user_input), agent),
                      on, ff, out_guardrails, user_input, agent)

\* GuardedAgent.chat(user_input) on an engine with the given flags and lists,
\* when the agent behind the adapter behaves as agent says if it is called.
\* The value is the record of the call: the steps taken in order, what each
\* was given and gave back, and the text returned or the exception raised.
GuardedChat(on, ff, in_guardrails, out_guardrails, user_input, agent) ==
    AfterInput(on, ff, out_guardrails, user_input, agent,
               apply_input_guardrails(on, ff, in_guardrails, user_input))

---------------------------------------------------------------------------
\* guardrails/core/adapters.py

\* what a call gives its caller: a value, or an exception of some class
Value(v) == [raised |-> FALSE, value |-> Some(v), error |-> None]

Raise(type, text) == [raised |-> TRUE, value |-> None, error |-> Some(Exception(type, text))]

\* An agent object, by what type(), hasattr(), callable() and dir() see of
\* it: the name of its class (one character per fragment), its public
\* callable members in the order of dir() (alphabetical), its public members
\* that are not callable, whether the object itself is callable, and whether
\* its chat member has a completions attribute.
AgentObject(type_name, methods, data, is_callable, chat_completions) ==
    [type_name |-> type_name, methods |-> methods, data |-> data,
     is_callable |-> is_callable, chat_completions |-> chat_completions]

\* hasattr(agent, name)
hasattr(agent, name) == name \in Range(agent.methods) \cup agent.data

\* str.lower() of one character
LowerChar(c) ==
    CASE c = "A" -> "a" [] c = "B" -> "b" [] c = "C" -> "c" [] c = "D" -> "d"
      [] c = "E" -> "e" [] c = "F" -> "f" [] c = "G" -> "g" [] c = "H" -> "h"
      [] c = "I" -> "i" [] c = "J" -> "j" [] c = "K" -> "k" [] c = "L" -> "l"
      [] c = "M" -> "m" [] c = "N" -> "n" [] c = "O" -> "o" [] c = "P" -> "p"
      [] c = "Q" -> "q" [] c = "R" -> "r" [] c = "S" -> "s" [] c = "T" -> "t"
      [] c = "U" -> "u" [] c = "V" -> "v" [] c = "W" -> "w" [] c = "X" -> "x"
      [] c = "Y" -> "y" [] c = "Z" -> "z" [] OTHER -> c

\* str.lower()
lower(s) == [i \in 1..Len(s) |-> LowerChar(s[i])]

\* str(list_of_str): "['a', 'b']"
RECURSIVE ReprItems(_)
ReprItems(names) ==
    IF names = <<>> THEN <<>>
    ELSE IF Len(names) = 1 THEN <<"'", names[1], "'">>
    ELSE <<"'", names[1], "'", ", ">> \o ReprItems(Tail(names))

ReprList(names) == <<"[">> \o ReprItems(names) \o <<"]">>

\* detect_agent_interface testing for invoke before chat
detect_agent_interface_InvokeFirst(agent) ==
    IF hasattr(agent, "invoke") THEN Value("invoke")
    ELSE IF hasattr(agent, "chat") THEN Value("chat")
    ELSE IF hasattr(agent, "run") THEN Value("run")
    ELSE IF agent.is_callable THEN Value("callable")
    ELSE Raise("ValueError", <<"Unable to detect agent interface.">>)

\* the branches of detect_agent_interface in the order of the code; the fifth
\* test repeats hasattr(agent, 'chat'), which the first branch has already
\* taken
detect_agent_interface(agent) ==
    IF hasattr(agent, "chat") THEN Value("chat")
    ELSE IF hasattr(agent, "invoke") THEN Value("invoke")
    ELSE IF hasattr(agent, "run") THEN Value("run")
    ELSE IF agent.is_callable THEN Value("callable")
    ELSE IF hasattr(agent, "chat") /\ agent.chat_completions THEN Value("openai_client")
    ELSE IF Contains(lower(agent.type_name), <<"l", "a", "n", "g", "c", "h", "a", "i", "n">>)
            \/ Contains(lower(agent.type_name), <<"c", "h", "a", "i", "n">>)
    THEN Value("langchain")
    ELSE Raise("ValueError",
               <<"Unable to detect agent interface. Agent type: ">> \o agent.type_name
                   \o <<", Available methods: ">> \o ReprList(agent.methods))

\* the keys of adapter_map, in insertion order
AdapterTypes == <<"chat", "invoke", "run", "callable", "openai_client", "langchain", "custom">>

\* dict.get called with the positional arguments args on the dict d
DictGetCall(d, args) ==
    IF Len(args) > 2
    THEN Raise("TypeError", <<"get expected at most 2 arguments, got ">> \o IntToStr(Len(args)))
    ELSE IF args[1] \in DictKeys(d) THEN Value(DictGet(d, args[1]))
    ELSE Value(IF Len(args) = 2 THEN args[2] ELSE None)

\* AgentAdapter.__init__: `self.config = config or {}`
AdapterConfig(config) == IF config = None THEN EmptyDict ELSE config[1]

\* an adapter object of the given class around the agent
Adapter(class, agent, config) == [class |-> class, agent |-> agent, config |-> config]

\* CustomMethodAdapter.__init__ from the statement that reads input_transform
\* on: its call of dict.get passes the key, the lambda and {} -- three
\* positional arguments
CustomMethodAdapterTransforms(agent, config, input_transform) ==
    IF input_transform.raised THEN input_transform
    ELSE Value(Adapter("CustomMethodAdapter", agent, config))

\* CustomMethodAdapter.__init__
CustomMethodAdapterInit(agent, config) ==
    IF "method_name" \notin DictKeys(config) \/ DictGet(config, "method_name") = <<>>
    THEN Raise("ValueError",
               <<"method_name must be specified in config for CustomMethodAdapter">>)
    ELSE CustomMethodAdapterTransforms(agent, config,
             DictGetCall(config, <<"input_transform", "lambda x, **kwargs: (x,)", EmptyDict>>))

\* adapter_class(agent, config) for the class adapter_map gives adapter_type
AdapterClassCall(adapter_type, agent, config) ==
    CASE adapter_type = "chat" -> Value(Adapter("ChatMethodAdapter", agent, config))
      [] adapter_type = "invoke" -> Value(Adapter("InvokeMethodAdapter", agent, config))
      [] adapter_type = "run" -> Value(Adapter("RunMethodAdapter", agent, config))
      [] adapter_type = "callable" -> Value(Adapter("CallableAdapter", agent, config))
      [] adapter_type = "openai_client" -> Value(Adapter("OpenAIClientAdapter", agent, config))
      [] adapter_type = "langchain" -> Value(Adapter("LangChainAgentAdapter", agent, config))
      [] adapter_type = "custom" -> CustomMethodAdapterInit(agent, config)

\* create_adapter once adapter_type is known (given, or detected)
CreateOfType(agent, adapter_type, config) ==
    IF adapter_type.raised THEN adapter_type
    ELSE IF adapter_type.value[1] \notin Range(AdapterTypes)
    THEN Raise("ValueError",
               <<"Unsupported adapter type: ", adapter_type.value[1], ". Available types: ">>
                   \o ReprList(AdapterTypes))
    ELSE AdapterClassCall(adapter_type.value[1], agent, AdapterConfig(config))

\* create_adapter(agent, adapter_type, config); adapter_type and config are
\* None or Some(value)
create_adapter(agent, adapter_type, config) ==
    CreateOfType(agent,
                 IF adapter_type = None THEN detect_agent_interface(agent)
                 ELSE Value(adapter_type[1]),
                 config)

\* GuardedAgent(adapter, engine): every adapter class has a chat method
GuardedAgent(agent_or_adapter) == Value([agent |-> agent_or_adapter, engine |-> "self"])

\* wrap_agent letting the error of create_adapter through as it is
WrapCreated_Propagates(created) ==
    IF created.raised THEN created ELSE GuardedAgent(created.value[1])

\* wrap_agent once create_adapter has returned or raised
WrapCreated(created) ==
    IF created.raised
    THEN Raise("ValueError", <<"Unable to wrap agent: ">> \o created.error[1].text)
    ELSE GuardedAgent(created.value[1])

\* GuardrailsEngine.wrap_agent(agent, adapter_type, adapter_config)
WrapAgent(agent, adapter_type, adapter_config) ==
    WrapCreated(create_adapter(agent, adapter_type, adapter_config))

\* Python values that an agent's invoke is given and returns: strings,
\* integers and dicts from string keys to such values
PyStr(s) == [type |-> "str", chars |-> s]

PyInt(n) == [type |-> "int", int |-> n]

PyDict(d) == [type |-> "dict", items |-> d]

\* repr() of a string or an integer
Repr(x) == IF x.type = "str" THEN <<"'">> \o x.chars \o <<"'">> ELSE IntToStr(x.int)

\* the items of a dict as repr() writes them
RECURSIVE ReprDictItems(_)
ReprDictItems(d) ==
    IF d = <<>> THEN <<>>
    ELSE <<"'", Head(d)[1], "': ">> \o Repr(Head(d)[2])
             \o (IF Len(d) > 1 THEN <<", ">> ELSE <<>>) \o ReprDictItems(Tail(d))

\* str(x)
Str(x) ==
    CASE x.type = "str" -> x.chars
      [] x.type = "int" -> IntToStr(x.int)
      [] x.type = "dict" -> <<"{">> \o ReprDictItems(x.items) \o <<"}">>

\* InvokeMethodAdapter.__init__: input_key and output_key from the config;
\* None is <<>>
InvokeKeys(config) ==
    [input_key |-> IF "input_key" \in DictKeys(config)
                   THEN DictGet(config, "input_key") ELSE Some("input"),
     output_key |-> IF "output_key" \in DictKeys(config)
                    THEN DictGet(config, "output_key") ELSE None]

\* the truth value of an optional key: None and "" are false
Truthy(key) == key # None /\ key # Some("")

\* the input_data built by InvokeMethodAdapter.chat
InvokePayload(keys, user_input, kwargs) ==
    IF Truthy(keys.input_key)
    THEN PyDict(DictUpdate(<<<<keys.input_key[1], PyStr(user_input)>>>>, kwargs))
    ELSE PyStr(user_input)

\* the text InvokeMethodAdapter.chat returns for the result of invoke
InvokeOutput(keys, result) ==
    IF Truthy(keys.output_key) /\ result.type = "dict"
    THEN IF keys.output_key[1] \in DictKeys(result.items)
         THEN Str(DictGet(result.items, keys.output_key[1]))
         ELSE Str(result)
    ELSE Str(result)

\* InvokeMethodAdapter.chat(user_input, **kwargs) when agent.invoke returns
\* result: what invoke was given and what chat returns
InvokeChat(config, user_input, kwargs, result) ==
    [payload |-> InvokePayload(InvokeKeys(config), user_input, kwargs),
     returned |-> InvokeOutput(InvokeKeys(config), result)]

\* the member called name of an object: of the GuardedAgent, of its adapter,
\* or of the raw agent
Member(owner, name) == [owner |-> owner, name |-> name]

\* getattr(agent, name) on the raw agent
getattr(agent, name) ==
    IF hasattr(agent, name) THEN Value(Member("agent", name))
    ELSE Raise("AttributeError",
               <<"'">> \o agent.type_name \o <<"' object has no attribute '", name, "'">>)

\* the attributes normal lookup finds on an adapter: those __init__ sets and
\* the chat method of its class
AdapterMembers(adapter) ==
    {"agent", "config", "chat"}
    \cup (IF adapter.class = "InvokeMethodAdapter" THEN {"input_key", "output_key"} ELSE {})
    \cup (IF adapter.class = "OpenAIClientAdapter" THEN {"model", "system_prompt"} ELSE {})
    \cup (IF adapter.class = "CustomMethodAdapter"
          THEN {"method_name", "input_transform", "output_transform"} ELSE {})

\* getattr(adapter, name): normal lookup, then AgentAdapter.__getattr__
AdapterGetattr(adapter, name) ==
    IF name \in AdapterMembers(adapter) THEN Value(Member("adapter", name))
    ELSE getattr(adapter.agent, name)

\* the attributes normal lookup finds on a GuardedAgent
GuardedAgentMembers == {"agent", "engine", "chat", "get_guardrails_stats"}

\* getattr(guarded_agent, name): normal lookup, then GuardedAgent.__getattr__
GuardedGetattr(guarded_agent, name) ==
    IF name \in GuardedAgentMembers THEN Value(Member("GuardedAgent", name))
    ELSE AdapterGetattr(guarded_agent.agent, name)

\* BaseGuardrail.__str__; the class of a guardrail goes by its kind
ClassName(guardrail) ==
    CASE guardrail.kind = "length" -> "LengthValidatorGuardrail"
      [] guardrail.kind = "pii" -> "PIIFilterGuardrail"
      [] OTHER -> "CustomGuardrail"

str(guardrail) ==
    <<ClassName(guardrail), "(name='", guardrail.name, "', enabled=",
      IF guardrail.enabled THEN "True" ELSE "False", ")">>

\* get_stats leaving the output guardrails out of the total
get_stats_InputsOnly(on, ff, inputs, outputs) ==
    <<<<"enabled", on>>,
      <<"input_guardrails", Len(inputs)>>,
      <<"output_guardrails", Len(outputs)>>,
      <<"total_guardrails", Len(inputs)>>,
      <<"fail_fast", ff>>,
      <<"input_guardrails_list", [i \in 1..Len(inputs) |-> str(inputs[i])]>>,
      <<"output_guardrails_list", [i \in 1..Len(outputs) |-> str(outputs[i])]>>>>

\* GuardrailsEngine.get_stats on an engine with these fields
get_stats(on, ff, inputs, outputs) ==
    <<<<"enabled", on>>,
      <<"input_guardrails", Len(inputs)>>,
      <<"output_guardrails", Len(outputs)>>,
      <<"total_guardrails", Len(inputs) + Len(outputs)>>,
      <<"fail_fast", ff>>,
      <<"input_guardrails_list", [i \in 1..Len(inputs) |-> str(inputs[i])]>>,
      <<"output_guardrails_list", [i \in 1..Len(outputs) |-> str(outputs[i])]>>>>

---------------------------------------------------------------------------
\* The guardrails an application registers, the texts a caller sends and what
\* the agent answers

MaxGuardrails == 3

InputPool ==
    {LengthValidatorGuardrail("length", TRUE, 3, 5, TRUE, <<".", ".", ".">>),
     CustomGuardrail("raiser", TRUE, "raise"),
     CustomGuardrail("eraser", TRUE, "blank"),
     CustomGuardrail("tagger", TRUE, "tag"),
     CustomGuardrail("blocker", TRUE, "block"),
     CustomGuardrail("off", FALSE, "raise")}

OutputPool ==
    {PIIFilterGuardrail("pii", TRUE, TRUE, TRUE, TRUE, TRUE,
                        <<"[", "R", "E", "D", "A", "C", "T", "E", "D", "]">>, FALSE),
     PIIFilterGuardrail("pii_strict", TRUE, TRUE, FALSE, FALSE, FALSE,
                        <<"[", "R", "E", "D", "A", "C", "T", "E", "D", "]">>, TRUE),
     PIIFilterGuardrail("pii_blank", TRUE, TRUE, FALSE, FALSE, FALSE, <<>>, FALSE),
     CustomGuardrail("raiser", TRUE, "raise"),
     CustomGuardrail("noter", TRUE, "note")}

UserInputs ==
    {<<"H", "i">>,
     <<"H", "e", "l", "l", "o">>,
     <<" ", "H", "e", "l", "l", "o", " ", "y", "o", "u">>}

AgentOutcomes ==
    {AgentReturns(<<"O", "K">>),
     AgentReturns(<<>>),
     AgentReturns(<<"a", "@", "b", ".", "c", "o", "m">>),
     AgentReturns(<<"t", "o", " ", "a", "@", "b", ".", "c", "o", "m">>),
     AgentRaises("RuntimeError", <<"Agent internal error">>),
     AgentRaises("ValueError", <<"bad value">>),
     AgentRaises("TypeError", <<"bad type">>)}

---------------------------------------------------------------------------
\* The state machine

\* the guardrails the application has passed to add_input_guardrail and to
\* add_output_guardrail so far, in the order of the calls
NoneAdded == [input |-> <<>>, output |-> <<>>]

\* no component has been called directly
NoProbe == [op |-> "none"]

\* GuardrailsEngine(config): the flags come from the config, the lists are empty
Init ==
    /\ enabled \in BOOLEAN
    /\ fail_fast \in BOOLEAN
    /\ input_guardrails = <<>>
    /\ output_guardrails = <<>>
    /\ guarded = FALSE
    /\ call = NoCall
    /\ probe = NoProbe
    /\ added = NoneAdded
    /\ wrapped = <<>>
    /\ chatting = 0

\* the caller is between two operations: it holds no pending chat outcome
Idle == call.status = "none"

add_input_guardrail(guardrail) ==
    /\ Idle
    /\ Len(input_guardrails) + Len(output_guardrails) < MaxGuardrails
    /\ input_guardrails' = Append(input_guardrails, guardrail)
    /\ added' = [added EXCEPT !.input = Append(@, guardrail)]
    /\ UNCHANGED <<enabled, fail_fast, output_guardrails, guarded, call, probe, wrapped, chatting>>

add_output_guardrail(guardrail) ==
    /\ Idle
    /\ Len(input_guardrails) + Len(output_guardrails) < MaxGuardrails
    /\ output_guardrails' = Append(output_guardrails, guardrail)
    /\ added' = [added EXCEPT !.output = Append(@, guardrail)]
    /\ UNCHANGED <<enabled, fail_fast, input_guardrails, guarded, call, probe, wrapped, chatting>>

\* engine.wrap_agent(agent) for an agent with a chat method
wrap_agent ==
    /\ Idle
    /\ ~guarded
    /\ guarded' = TRUE
    /\ UNCHANGED <<enabled, fail_fast, input_guardrails, output_guardrails, call, probe, added, wrapped, chatting>>

\* guarded_agent.chat(user_input)
chat(user_input, agent) ==
    /\ Idle
    /\ guarded
    /\ call' = GuardedChat(enabled, fail_fast, input_guardrails, output_guardrails,
                           user_input, agent)
    /\ UNCHANGED <<enabled, fail_fast, input_guardrails, output_guardrails, guarded, probe, added, wrapped, chatting>>

\* the caller consumes the response or the exception of its chat call and goes on
handle_outcome ==
    /\ ~Idle
    /\ call' = NoCall
    /\ UNCHANGED <<enabled, fail_fast, input_guardrails, output_guardrails, guarded, probe, added, wrapped, chatting>>

Next ==
    \/ \E guardrail \in InputPool : add_input_guardrail(guardrail)
    \/ \E guardrail \in OutputPool : add_output_guardrail(guardrail)
    \/ wrap_agent
    \/ \E user_input \in UserInputs, agent \in AgentOutcomes : chat(user_input, agent)
    \/ handle_outcome

Spec == Init /\ [][Next]_vars

---------------------------------------------------------------------------
\* The components called directly, as tests/test_adapters.py and
\* tests/test_guardrails.py call them: one call at a time, whose arguments
\* and outcome the caller holds in probe until it goes on.

\* s with only the members that are in S, in the order of s
KeepIn(s, S) == SelectSeq(s, LAMBDA m : m \in S)

\* the public methods the agent classes of the tests and demos define, in
\* the order dir() lists them
PublicMethods == <<"chat", "invoke", "process_text", "run", "some_method">>

TypeNames ==
    {<<"A", "g", "e", "n", "t">>,
     <<"M", "y", "C", "h", "a", "i", "n">>}

\* tests/test_adapters.py TestMockOpenAI: __init__ sets self.chat = self and
\* self.completions to an object; the only callable public member is the
\* nested class MockCompletions
TestMockOpenAI ==
    AgentObject(<<"T", "e", "s", "t", "M", "o", "c", "k", "O", "p", "e", "n", "A", "I">>,
                <<"MockCompletions">>, {"chat", "completions"}, FALSE, TRUE)

\* an agent that keeps its settings in attributes of its own
SettingsAgent ==
    AgentObject(<<"A", "g", "e", "n", "t">>, <<"chat", "invoke">>,
                {"config", "model_id", "engine"}, FALSE, FALSE)

Agents ==
    {AgentObject(type_name, KeepIn(PublicMethods, S), {}, is_callable, FALSE) :
        type_name \in TypeNames, S \in SUBSET Range(PublicMethods), is_callable \in BOOLEAN}
    \cup {TestMockOpenAI, SettingsAgent}

\* the attribute names a caller reads on a wrapped agent
NamesRead == {"chat", "invoke", "run", "config", "model_id", "engine", "agent", "missing"}

\* the adapter types the agents of those callers are wrapped with
WrapTypes == {None, Some("chat"), Some("invoke")}

\* the adapter_type arguments: None (detect), every known name, an unknown one
AdapterTypeArgs == {None} \cup {Some(t) : t \in Range(AdapterTypes) \cup {"bogus"}}

\* the config arguments: None, {}, a method name, an empty method name
AdapterConfigArgs ==
    {None, Some(EmptyDict),
     Some(<<<<"method_name", <<"process_text">>>>>>),
     Some(<<<<"method_name", <<>>>>>>)}

call_detect_agent_interface(agent) ==
    /\ probe = NoProbe
    /\ probe' = [op |-> "detect_agent_interface", agent |-> agent,
                 out |-> detect_agent_interface(agent)]
    /\ UNCHANGED <<enabled, fail_fast, input_guardrails, output_guardrails, guarded, call, added, wrapped, chatting>>

call_create_adapter(agent, adapter_type, config) ==
    /\ probe = NoProbe
    /\ probe' = [op |-> "create_adapter", agent |-> agent, adapter_type |-> adapter_type,
                 config |-> config, out |-> create_adapter(agent, adapter_type, config)]
    /\ UNCHANGED <<enabled, fail_fast, input_guardrails, output_guardrails, guarded, call, added, wrapped, chatting>>

call_wrap_agent(agent, adapter_type, adapter_config) ==
    /\ probe = NoProbe
    /\ probe' = [op |-> "wrap_agent", agent |-> agent, adapter_type |-> adapter_type,
                 config |-> adapter_config,
                 out |-> WrapAgent(agent, adapter_type, adapter_config)]
    /\ UNCHANGED <<enabled, fail_fast, input_guardrails, output_guardrails, guarded, call, added, wrapped, chatting>>

\* getattr(engine.wrap_agent(agent, adapter_type), name)
call_getattr(agent, adapter_type, name) ==
    /\ probe = NoProbe
    /\ ~WrapAgent(agent, adapter_type, None).raised
    /\ probe' = [op |-> "getattr", agent |-> agent, adapter_type |-> adapter_type,
                 name |-> name,
                 out |-> GuardedGetattr(WrapAgent(agent, adapter_type, None).value[1], name)]
    /\ UNCHANGED <<enabled, fail_fast, input_guardrails, output_guardrails, guarded, call, added, wrapped, chatting>>

\* the configs of the invoke adapters: the defaults, both keys configured,
\* an output key only, and an empty input key
InvokeConfigs ==
    {EmptyDict,
     <<<<"input_key", Some("question")>>, <<"output_key", Some("answer")>>>>,
     <<<<"output_key", Some("output")>>>>,
     <<<<"input_key", Some("")>>>>}

\* the extra keyword arguments of a chat call
InvokeKwargs ==
    {EmptyDict,
     <<<<"thread_id", PyStr(<<"t1">>)>>>>,
     <<<<"input", PyStr(<<"other">>)>>>>,
     <<<<"thread_id", PyStr(<<"t1">>)>>, <<"question", PyStr(<<"other">>)>>>>}

\* what the agent's invoke returns
InvokeResults ==
    {PyStr(<<"ok">>),
     PyInt(7),
     PyDict(EmptyDict),
     PyDict(<<<<"output", PyStr(<<"yes">>)>>>>),
     PyDict(<<<<"answer", PyInt(5)>>, <<"output", PyStr(<<"yes">>)>>>>)}

\* InvokeMethodAdapter(agent, config).chat(user_input, **kwargs)
call_invoke_chat(config, user_input, kwargs, result) ==
    /\ probe = NoProbe
    /\ probe' = [op |-> "invoke_chat", config |-> config, user_input |-> user_input,
                 kwargs |-> kwargs, result |-> result,
                 out |-> InvokeChat(config, user_input, kwargs, result)]
    /\ UNCHANGED <<enabled, fail_fast, input_guardrails, output_guardrails, guarded, call, added, wrapped, chatting>>

\* the longest text given to LengthValidatorGuardrail.validate
MaxTextLen == 6

\* the largest max_length configured
MaxLength == 4

\* all texts of at most n characters over the alphabet
Texts(alphabet, n) == UNION {[1..k -> alphabet] : k \in 0..n}

LengthTexts == Texts({"a", " "}, MaxTextLen)

\* the LengthValidatorGuardrail objects whose construction succeeds
LengthValidators ==
    {g \in {LengthValidatorGuardrail("test_length", TRUE, min_length, max_length,
                                      truncate, truncate_suffix) :
                min_length \in 0..2, max_length \in 0..MaxLength, truncate \in BOOLEAN,
                truncate_suffix \in {<<>>, <<".">>, <<".", ".", ".">>,
                                     <<".", ".", ".", ".">>}} :
        LengthConfigValid(g.cfg)}

\* guardrail.validate(input_text) on a LengthValidatorGuardrail
call_validate(guardrail, input_text) ==
    /\ probe = NoProbe
    /\ probe' = [op |-> "validate", guardrail |-> guardrail, input_text |-> input_text,
                 out |-> LengthValidate(guardrail.cfg, input_text)]
    /\ UNCHANGED <<enabled, fail_fast, input_guardrails, output_guardrails, guarded, call, added, wrapped, chatting>>

\* the same guardrail's validate applied to the truncated content its
\* validate returned
call_validate_again ==
    /\ probe.op = "validate"
    /\ probe.out.status = WARNING
    /\ probe' = [op |-> "validate_again", guardrail |-> probe.guardrail,
                 input_text |-> content(probe.out),
                 out |-> LengthValidate(probe.guardrail.cfg, content(probe.out))]
    /\ UNCHANGED <<enabled, fail_fast, input_guardrails, output_guardrails, guarded, call, added, wrapped, chatting>>

\* the most pieces a text given to PIIFilterGuardrail.filter is made of
MaxTokens == 3

\* the pieces of those texts: an e-mail address, an e-mail address whose
\* domain starts with a phone number, a phone number, a space, a space
\* before a letter, and the default replacement token
PIITokens ==
    {<<"a", "@", "b", ".", "c", "o">>,
     <<"a", "@", "5", "5", "5", "-", "1", "2", "3", "-", "4", "5", "6", "7", ".", "c", "o", "m">>,
     <<"1", "2", "3", "4", "5", "6", "7", "8", "9", "0">>,
     <<" ">>,
     <<" ", "x">>,
     <<"[", "R", "E", "D", "A", "C", "T", "E", "D", "]">>}

\* the concatenation of a sequence of texts
RECURSIVE Concat(_)
Concat(pieces) == IF pieces = <<>> THEN <<>> ELSE Head(pieces) \o Concat(Tail(pieces))

PIITexts == {Concat(pieces) : pieces \in Texts(PIITokens, MaxTokens)}

\* the PIIFilterGuardrail objects: the default config, one masking e-mail
\* addresses and phone numbers with "#", and the default config in strict
\* mode
PIIFilters ==
    {PIIFilterGuardrail("test_pii", TRUE, TRUE, TRUE, TRUE, TRUE,
                        <<"[", "R", "E", "D", "A", "C", "T", "E", "D", "]">>, FALSE),
     PIIFilterGuardrail("test_pii", TRUE, TRUE, TRUE, FALSE, FALSE, <<"#">>, FALSE),
     PIIFilterGuardrail("test_pii", TRUE, TRUE, TRUE, TRUE, TRUE,
                        <<"[", "R", "E", "D", "A", "C", "T", "E", "D", "]">>, TRUE)}

\* what a caller of filter(output_text) holds afterwards; the detections are
\* those of the metadata of the result
Filtered(op, guardrail, output_text, out) ==
    [op |-> op, guardrail |-> guardrail, output_text |-> output_text, out |-> out,
     detections |-> IF DictGet(out.metadata[1], "pii_detected")
                    THEN DictGet(out.metadata[1], "detections") ELSE <<>>]

\* guardrail.filter(output_text) on a PIIFilterGuardrail
call_filter(guardrail, output_text) ==
    /\ probe = NoProbe
    /\ probe' = Filtered("filter", guardrail, output_text,
                         PIIFilter(guardrail.cfg, output_text))
    /\ UNCHANGED <<enabled, fail_fast, input_guardrails, output_guardrails, guarded, call, added, wrapped, chatting>>

\* the same guardrail's filter applied to the content its filter returned
call_filter_again ==
    /\ probe.op = "filter"
    /\ probe.out.modified_content # None
    /\ probe' = Filtered("filter_again", probe.guardrail, probe.out.modified_content[1],
                         PIIFilter(probe.guardrail.cfg, probe.out.modified_content[1]))
    /\ UNCHANGED <<enabled, fail_fast, input_guardrails, output_guardrails, guarded, call, added, wrapped, chatting>>

\* the caller drops the outcome it holds and goes on to its next call
next_call ==
    /\ probe # NoProbe
    /\ probe' = NoProbe
    /\ UNCHANGED <<enabled, fail_fast, input_guardrails, output_guardrails, guarded, call, added, wrapped, chatting>>

\* the caller holds no outcome: it makes a call
FirstCall ==
    \/ \E agent \in Agents : call_detect_agent_interface(agent)
    \/ \E agent \in Agents, adapter_type \in AdapterTypeArgs, config \in AdapterConfigArgs :
           call_create_adapter(agent, adapter_type, config)
    \/ \E agent \in Agents, adapter_type \in AdapterTypeArgs, config \in AdapterConfigArgs :
           call_wrap_agent(agent, adapter_type, config)
    \/ \E agent \in Agents, adapter_type \in WrapTypes, name \in NamesRead :
           call_getattr(agent, adapter_type, name)
    \/ \E config \in InvokeConfigs, user_input \in UserInputs, kwargs \in InvokeKwargs,
              result \in InvokeResults :
           call_invoke_chat(config, user_input, kwargs, result)
    \/ \E guardrail \in LengthValidators, input_text \in LengthTexts :
           call_validate(guardrail, input_text)
    \/ \E guardrail \in PIIFilters, output_text \in PIITexts :
           call_filter(guardrail, output_text)

ComponentNext ==
    \/ probe = NoProbe /\ FirstCall
    \/ call_filter_again
    \/ call_validate_again
    \/ next_call

\* GuardrailsEngine() with no config: enabled, fail_fast, no guardrails
ComponentInit ==
    /\ enabled = TRUE
    /\ fail_fast = TRUE
    /\ input_guardrails = <<>>
    /\ output_guardrails = <<>>
    /\ guarded = FALSE
    /\ call = NoCall
    /\ probe = NoProbe
    /\ added = NoneAdded
    /\ wrapped = <<>>
    /\ chatting = 0

ComponentSpec == ComponentInit /\ [][ComponentNext]_vars

---------------------------------------------------------------------------
\* One engine that wraps several agents, with guardrails registered before
\* and after the wraps.

\* the most agents one engine wraps
MaxAgents == 2

SharedInputPool ==
    {LengthValidatorGuardrail("length", TRUE, 3, 8, FALSE, <<".", ".", ".">>),
     CustomGuardrail("tagger", TRUE, "tag")}

SharedOutputPool ==
    {PIIFilterGuardrail("pii", TRUE, TRUE, TRUE, TRUE, TRUE,
                        <<"[", "R", "E", "D", "A", "C", "T", "E", "D", "]">>, FALSE)}

SharedUserInputs == {<<"H", "i">>, <<"H", "e", "l", "l", "o">>}

SharedAgentOutcomes == {AgentReturns(<<"a", "@", "b", ".", "c", "o", "m">>)}

\* the engine's two lists as they are now
ListsNow == [input |-> input_guardrails, output |-> output_guardrails]

\* GuardedAgent.__init__ at the end of wrap_agent: `self.engine =
\* guardrails_engine` keeps the engine object; at_wrap records what its lists
\* held at that moment
WrappedAgent == [engine |-> "self", at_wrap |-> ListsNow]

\* a GuardedAgent that runs the lists its engine had when it was created
engine_lists_AtWrap(guarded_agent) == guarded_agent.at_wrap

\* the lists `self.engine.apply_input_guardrails` and
\* `self.engine.apply_output_guardrails` go through when guarded_agent.chat
\* calls them: those of the engine object, as they are at the call
engine_lists(guarded_agent) == ListsNow

\* engine.wrap_agent(agent) for one more agent with a chat method
wrap_one_more ==
    /\ Idle
    /\ Len(wrapped) < MaxAgents
    /\ wrapped' = Append(wrapped, WrappedAgent)
    /\ guarded' = TRUE
    /\ UNCHANGED <<enabled, fail_fast, input_guardrails, output_guardrails, call, probe, added, chatting>>

\* wrapped[k].chat(user_input)
chat_of(k, user_input, agent) ==
    /\ Idle
    /\ call' = GuardedChat(enabled, fail_fast, engine_lists(wrapped[k]).input,
                           engine_lists(wrapped[k]).output, user_input, agent)
    /\ chatting' = k
    /\ UNCHANGED <<enabled, fail_fast, input_guardrails, output_guardrails, guarded, probe, added, wrapped>>

SharedNext ==
    \/ \E guardrail \in SharedInputPool : add_input_guardrail(guardrail)
    \/ \E guardrail \in SharedOutputPool : add_output_guardrail(guardrail)
    \/ wrap_one_more
    \/ \E k \in 1..Len(wrapped), user_input \in SharedUserInputs,
          agent \in SharedAgentOutcomes : chat_of(k, user_input, agent)
    \/ handle_outcome

\* the engine is GuardrailsEngine() with no config
SharedEngineSpec == ComponentInit /\ [][SharedNext]_vars

---------------------------------------------------------------------------
\* Vocabulary of the properties

Failure == {FAILED, BLOCKED}

\* a chat call has been made and not yet consumed
Called == call.status # "none"

\* the pipelines the latest chat call ran
Sides ==
    (IF Called /\ call.input_run # None THEN {"input"} ELSE {})
        \cup (IF Called /\ call.output_run # None THEN {"output"} ELSE {})

\* a pipeline run of the latest chat call: the list it went through, the text
\* and the context it was given, its result and the invocations it made
RunOf(side) ==
    IF side = "input"
    THEN [side |-> side, guardrails |-> input_guardrails,
          text |-> call.user_input[1], input_text |-> <<>>,
          result |-> call.input_run[1].result, calls |-> call.input_run[1].calls]
    ELSE [side |-> side, guardrails |-> output_guardrails,
          text |-> call.agent[1].value, input_text |-> call.user_input[1],
          result |-> call.output_run[1].result, calls |-> call.output_run[1].calls]

\* what the guardrail of the k-th invocation of run r handed back or raised
CheckAt(r, k) == r.calls[k].out

RaisedAt(r, k) == CheckAt(r, k).raised

FailedAt(r, k) == ~CheckAt(r, k).raised /\ CheckAt(r, k).result[1].status \in Failure

\* the k-th invocation succeeded and returned rewritten content
RewroteAt(r, k) ==
    /\ ~CheckAt(r, k).raised
    /\ CheckAt(r, k).result[1].status \notin Failure
    /\ CheckAt(r, k).result[1].modified_content # None

NoFailureIn(r) == \A k \in 1..Len(r.calls) : ~RaisedAt(r, k) /\ ~FailedAt(r, k)

\* the text of the latest successful rewrite among the first k - 1 invocations
\* of run r, the text the run was given if there is none
LatestRewrite(r, k) ==
    LET S == {j \in 1..(k - 1) : RewroteAt(r, j)}
    IN  IF S = {} THEN r.text
        ELSE CheckAt(r, Max(S)).result[1].modified_content[1]

EnabledIndices(guardrails) == {i \in 1..Len(guardrails) : guardrails[i].enabled}

\* the pipeline result the latest chat call got from its input pipeline
InputResult == call.input_run[1].result

OutputResult == call.output_run[1].result

---------------------------------------------------------------------------
\* C1: whenever the input pipeline of a chat call fails (Failed or Blocked),
\* chat raises the input-blocked error carrying the pipeline's message, the
\* adapter is not invoked and the output pipeline does not run.
C1_InputFailureBlocks ==
    (Called /\ InputResult.status \in Failure)
    => /\ call.status = "raised"
       /\ call.error = Some(Exception("ValueError",
              <<"Input blocked by guardrails: ">> \o InputResult.message))
       /\ "adapter" \notin Range(call.steps)
       /\ "output_guardrails" \notin Range(call.steps)
       /\ call.adapter_arg = None
       /\ call.agent = None
       /\ call.output_run = None
       /\ call.response = None

\* "Hi" against a LengthValidator with min_length 3 is blocked before the agent
C1_Witness ==
    /\ Called
    /\ call.user_input = Some(<<"H", "i">>)
    /\ Len(input_guardrails) > 0
    /\ input_guardrails[1].kind = "length"
    /\ input_guardrails[1].cfg.min_length = 3
    /\ enabled
    /\ call.status = "raised"
    /\ call.error[1].type = "ValueError"
    /\ call.steps = <<"input_guardrails">>

\* C2: with fail_fast true a pipeline stops at the first guardrail whose result
\* is a failure: that invocation is the last one of the run, no guardrail
\* registered after it is invoked, and its result is returned unchanged.
C2_FailFastStops ==
    \A side \in Sides :
        LET r == RunOf(side) IN
        (enabled /\ fail_fast) =>
            \A k \in 1..Len(r.calls) :
                FailedAt(r, k) =>
                    /\ k = Len(r.calls)
                    /\ \A j \in 1..Len(r.calls) : r.calls[j].index <= r.calls[k].index
                    /\ r.result = CheckAt(r, k).result[1]

\* a fail-fast run stopped by a failing guardrail that has an enabled successor
C2_Witness ==
    \E side \in Sides :
        LET r == RunOf(side) IN
        /\ enabled
        /\ fail_fast
        /\ Len(r.calls) > 0
        /\ FailedAt(r, Len(r.calls))
        /\ \E i \in EnabledIndices(r.guardrails) : i > r.calls[Len(r.calls)].index

\* C3: with fail_fast false every enabled guardrail of the pipeline is invoked
\* exactly once, a failing or raising guardrail leaves the text unchanged for
\* the next one, the status is Failed iff some guardrail failed or raised
\* (else Passed), and the combined message names every invoked guardrail.
C3_CollectAll ==
    \A side \in Sides :
        LET r == RunOf(side) IN
        (enabled /\ ~fail_fast) =>
            /\ \A i \in EnabledIndices(r.guardrails) :
                   Cardinality({k \in 1..Len(r.calls) : r.calls[k].index = i}) = 1
            /\ \A k \in 1..(Len(r.calls) - 1) :
                   (FailedAt(r, k) \/ RaisedAt(r, k)) => r.calls[k + 1].text = r.calls[k].text
            /\ r.result.status = IF NoFailureIn(r) THEN PASSED ELSE FAILED
            /\ \A k \in 1..Len(r.calls) :
                   r.guardrails[r.calls[k].index].name \in Range(r.result.message)

\* a collect-all run in which a guardrail failed with modified content and a
\* later guardrail was still invoked
C3_Witness ==
    \E side \in Sides :
        LET r == RunOf(side) IN
        /\ enabled
        /\ ~fail_fast
        /\ \E k \in 1..(Len(r.calls) - 1) :
               /\ FailedAt(r, k)
               /\ CheckAt(r, k).result[1].modified_content # None

\* C4: guardrails are invoked in registration order, a disabled guardrail is
\* never invoked, each invoked guardrail receives the text of the latest
\* earlier successful rewrite (the original text if there is none), and when
\* no guardrail fails the final content is the result of that composition.
C4_Composition ==
    \A side \in Sides :
        LET r == RunOf(side) IN
        enabled =>
            /\ \A k \in 1..(Len(r.calls) - 1) : r.calls[k].index < r.calls[k + 1].index
            /\ \A k \in 1..Len(r.calls) :
                   /\ r.calls[k].index \in 1..Len(r.guardrails)
                   /\ r.guardrails[r.calls[k].index].enabled
                   /\ r.calls[k].text = LatestRewrite(r, k)
            /\ NoFailureIn(r) =>
                   /\ r.result.status = PASSED
                   /\ r.result.modified_content = Some(LatestRewrite(r, Len(r.calls) + 1))

\* a run without failure over a list holding a disabled guardrail, in which a
\* guardrail received a text rewritten by an earlier one
C4_Witness ==
    \E side \in Sides :
        LET r == RunOf(side) IN
        /\ enabled
        /\ NoFailureIn(r)
        /\ \E i \in 1..Len(r.guardrails) : ~r.guardrails[i].enabled
        /\ \E k \in 2..Len(r.calls) : RewroteAt(r, k - 1) /\ r.calls[k].text # r.text

\* C5: an exception raised by a guardrail's check does not leave the pipeline:
\* the run ends with a result, Failed, whose message carries the exception
\* text; under fail_fast it is returned at once, under collect-all every later
\* enabled guardrail is still invoked.
C5_ExceptionsBecomeFailures ==
    \A side \in Sides :
        LET r == RunOf(side) IN
        enabled =>
            \A k \in 1..Len(r.calls) :
                RaisedAt(r, k) =>
                    /\ r.result.status = FAILED
                    /\ Contains(r.result.message,
                                <<r.guardrails[r.calls[k].index].name, ": ">>
                                    \o CheckAt(r, k).text)
                    /\ fail_fast =>
                           /\ k = Len(r.calls)
                           /\ r.result.modified_content = None
                    /\ ~fail_fast =>
                           \A i \in EnabledIndices(r.guardrails) :
                               i > r.calls[k].index =>
                                   \E j \in (k + 1)..Len(r.calls) : r.calls[j].index = i

\* a collect-all run in which a guardrail raised and a later one was invoked
C5_Witness ==
    \E side \in Sides :
        LET r == RunOf(side) IN
        /\ enabled
        /\ ~fail_fast
        /\ \E k \in 1..(Len(r.calls) - 1) : RaisedAt(r, k)

\* C6: whenever the output pipeline succeeds, chat returns exactly the content
\* the output pipeline hands back; the raw agent response is returned only when
\* the pipeline result carries no rewritten content.
C6_ReturnsSurvivingContent ==
    (Called /\ call.output_run # None /\ OutputResult.status \notin Failure)
    => /\ call.status = "returned"
       /\ call.response =
              Some(IF OutputResult.modified_content # None
                   THEN OutputResult.modified_content[1]
                   ELSE call.agent[1].value)

\* C7: whenever the input pipeline succeeds, the adapter's chat is invoked
\* with exactly the content the input pipeline hands back; the original user
\* input is passed only when the pipeline result carries no rewritten content.
C7_AdapterGetsSurvivingContent ==
    (Called /\ InputResult.status \notin Failure)
    => /\ "adapter" \in Range(call.steps)
       /\ call.adapter_arg =
              Some(IF InputResult.modified_content # None
                   THEN InputResult.modified_content[1]
                   ELSE call.user_input[1])

\* C8: whenever the output pipeline fails, chat raises the output-blocked
\* error and returns no response text.
C8_OutputFailureBlocks ==
    (Called /\ call.output_run # None /\ OutputResult.status \in Failure)
    => /\ call.status = "raised"
       /\ call.error = Some(Exception("RuntimeError",
              <<"Output blocked by guardrails: ">> \o OutputResult.message))
       /\ call.response = None

\* the agent answered with an e-mail address and a PIIFilter in strict mode
\* blocked the answer
C8_Witness ==
    /\ Called
    /\ call.output_run # None
    /\ OutputResult.status = BLOCKED
    /\ \E k \in 1..Len(call.output_run[1].calls) :
           LET guardrail == output_guardrails[call.output_run[1].calls[k].index]
           IN  guardrail.kind = "pii" /\ guardrail.cfg.strict_mode
    /\ Contains(call.agent[1].value, <<"a", "@", "b", ".", "c", "o", "m">>)
    /\ call.status = "raised"
    /\ call.response = None

\* C9: every exception the adapter or the agent raises, whatever its class,
\* reaches the caller as the "Agent execution failed" error, and the
\* input-blocked and output-blocked errors reach the caller unchanged.
C9_AgentErrorsWrapped ==
    /\ (Called /\ call.agent # None /\ call.agent[1].raised)
       => call.error = Some(Exception("RuntimeError",
              <<"Agent execution failed: ">> \o call.agent[1].text))
    /\ (Called /\ InputResult.status \in Failure)
       => call.error = Some(Exception("ValueError",
              <<"Input blocked by guardrails: ">> \o InputResult.message))
    /\ (Called /\ call.output_run # None /\ OutputResult.status \in Failure)
       => call.error = Some(Exception("RuntimeError",
              <<"Output blocked by guardrails: ">> \o OutputResult.message))

\* C11: with the engine's enabled flag false, each pipeline of a chat call
\* returns Passed with modified content equal to the text it was given and
\* invokes no guardrail, whatever the lists hold; the adapter gets the raw
\* user input and the caller gets the raw agent response.
C11_DisabledEngine ==
    (Called /\ ~enabled) =>
        /\ call.input_run[1].calls = <<>>
        /\ InputResult.status = PASSED
        /\ InputResult.modified_content = call.user_input
        /\ call.adapter_arg = call.user_input
        /\ call.output_run # None =>
               /\ call.output_run[1].calls = <<>>
               /\ OutputResult.status = PASSED
               /\ OutputResult.modified_content = Some(call.agent[1].value)
               /\ call.status = "returned"
               /\ call.response = Some(call.agent[1].value)
        /\ ~call.agent[1].raised => call.output_run # None

\* a chat through a disabled engine whose lists hold a guardrail that raises
\* and a strict PIIFilter, with an agent reply that holds an e-mail address
C11_Witness ==
    /\ Called
    /\ ~enabled
    /\ \E i \in 1..Len(input_guardrails) :
           input_guardrails[i].enabled /\ input_guardrails[i].kind = "custom"
               /\ input_guardrails[i].cfg.script = "raise"
    /\ \E i \in 1..Len(output_guardrails) :
           output_guardrails[i].kind = "pii" /\ output_guardrails[i].cfg.strict_mode
    /\ call.status = "returned"
    /\ call.response = Some(<<"a", "@", "b", ".", "c", "o", "m">>)

\* the order of the steps of a chat call

---------------------------------------------------------------------------
\* The engine's guardrail lists (Spec)

\* what get_stats would return now
Stats == get_stats(enabled, fail_fast, input_guardrails, output_guardrails)

\* long starts with short
StartsWith(long, short) ==
    Len(short) <= Len(long) /\ SubSeq(long, 1, Len(short)) = short

\* get_stats counts the add calls made so far and lists their guardrails in
\* the order of the calls
StatsCountAdds ==
    /\ DictGet(Stats, "input_guardrails") = Len(added.input)
    /\ DictGet(Stats, "output_guardrails") = Len(added.output)
    /\ DictGet(Stats, "total_guardrails") = Len(added.input) + Len(added.output)
    /\ DictGet(Stats, "input_guardrails_list")
           = [i \in 1..Len(added.input) |-> str(added.input[i])]
    /\ DictGet(Stats, "output_guardrails_list")
           = [i \in 1..Len(added.output) |-> str(added.output[i])]
    /\ input_guardrails = added.input
    /\ output_guardrails = added.output

\* a step leaves each list as it is or appends to it
AppendOnly ==
    /\ StartsWith(input_guardrails', input_guardrails)
    /\ StartsWith(output_guardrails', output_guardrails)

\* C22: after any sequence of add_input_guardrail, add_output_guardrail,
\* wrap_agent and chat calls, get_stats reports the numbers of
\* add_input_guardrail and add_output_guardrail calls made so far, their sum
\* as total_guardrails, and the registered guardrails in registration order;
\* the lists only ever grow by appending.
C22_StatsCountRegistrations == [](StatsCountAdds) /\ [][AppendOnly]_vars

\* two input guardrails and an output guardrail registered, a chat made
C22_Witness ==
    /\ Called
    /\ Len(added.input) = 2
    /\ Len(added.output) = 1
    /\ added.input[1] # added.input[2]
    /\ DictGet(Stats, "total_guardrails") = 3

---------------------------------------------------------------------------
\* Interface detection and wrapping (ComponentSpec)

Detected == probe.op = "detect_agent_interface"

Wrapped == probe.op = "wrap_agent"

\* the first of chat, invoke, run, callable the agent has; "" if it has none
FirstCapability(agent) ==
    IF hasattr(agent, "chat") THEN "chat"
    ELSE IF hasattr(agent, "invoke") THEN "invoke"
    ELSE IF hasattr(agent, "run") THEN "run"
    ELSE IF agent.is_callable THEN "callable"
    ELSE ""

C13_UndetectableFails ==
    (/\ probe.op \in {"detect_agent_interface", "wrap_agent"}
     /\ probe.op = "wrap_agent" => probe.adapter_type = None
     /\ FirstCapability(probe.agent) = "") =>
        /\ probe.out.raised
        /\ Contains(probe.out.error[1].text, ReprList(probe.agent.methods))

\* C14: an agent whose chat member has a completions attribute is detected
\* as 'openai_client'.
C14_OpenAIDetected ==
    (Detected /\ hasattr(probe.agent, "chat") /\ probe.agent.chat_completions) =>
        probe.out = Value("openai_client")

\* the text of the error create_adapter raises for the probed arguments
Cause == create_adapter(probe.agent, probe.adapter_type, probe.config).error[1].text

\* C15: wrap_agent returns a GuardedAgent holding this engine and an adapter
\* built around the agent, or raises ValueError "Unable to wrap agent: "
\* followed by the cause; it raises for a failed detection, for an unknown
\* adapter type (the cause lists the known types) and for the custom type
\* without method_name, and raises nothing else.
C15_WrapOrSingleError ==
    Wrapped =>
        /\ \/ /\ ~probe.out.raised
              /\ probe.out.value[1].engine = "self"
              /\ probe.out.value[1].agent.agent = probe.agent
              /\ probe.out.value[1].agent
                     = create_adapter(probe.agent, probe.adapter_type, probe.config).value[1]
           \/ /\ probe.out.raised
              /\ probe.out.error[1].type = "ValueError"
              /\ probe.out.error[1].text = <<"Unable to wrap agent: ">> \o Cause
        /\ (probe.adapter_type = None /\ detect_agent_interface(probe.agent).raised) =>
               /\ probe.out.raised
               /\ Cause = detect_agent_interface(probe.agent).error[1].text
        /\ probe.adapter_type = Some("bogus") =>
               /\ probe.out.raised
               /\ Contains(Cause, ReprList(AdapterTypes))
        /\ (probe.adapter_type = Some("custom")
              /\ probe.config \in {None, Some(EmptyDict)}) =>
               /\ probe.out.raised
               /\ Cause = <<"method_name must be specified in config for CustomMethodAdapter">>

C15_Witness ==
    /\ Wrapped
    /\ probe.adapter_type = Some("custom")
    /\ probe.config = None
    /\ probe.out = Raise("ValueError",
           <<"Unable to wrap agent: ",
             "method_name must be specified in config for CustomMethodAdapter">>)

\* C23: reading a member other than chat on a GuardedAgent yields the raw
\* agent's member of that name.
C23_MembersForwarded ==
    (/\ probe.op = "getattr"
     /\ probe.name # "chat"
     /\ hasattr(probe.agent, probe.name)) =>
        probe.out = Value(Member("agent", probe.name))

\* C16: create_adapter for the custom type with a config that names a method
\* returns an adapter.
C16_CustomAdapterBuilt ==
    (/\ probe.op = "create_adapter"
     /\ probe.adapter_type = Some("custom")
     /\ probe.config # None
     /\ "method_name" \in DictKeys(probe.config[1])
     /\ DictGet(probe.config[1], "method_name") # <<>>) =>
        ~probe.out.raised

---------------------------------------------------------------------------
\* LengthValidatorGuardrail called directly (ComponentSpec)

Validated == probe.op = "validate"

\* the number of characters from the first to the last character of t that
\* is not whitespace
TrimmedLength(t) ==
    LET solid == {i \in 1..Len(t) : t[i] \notin Whitespace}
    IN  IF solid = {} THEN 0
        ELSE (CHOOSE i \in solid : \A j \in solid : j <= i)
                 - (CHOOSE i \in solid : \A j \in solid : i <= j) + 1

\* C17: with L the length of the trimmed text, validate returns FAILED when
\* L < min_length whatever truncate is; PASSED with the untrimmed text as
\* modified content when min_length <= L <= max_length; and when
\* L > max_length, FAILED if truncate is off or max_length - len(suffix) <= 0,
\* else WARNING with rewritten content.
C17_LengthClasses ==
    Validated =>
        LET cfg == probe.guardrail.cfg
            L == TrimmedLength(probe.input_text)
        IN  /\ L < cfg.min_length => probe.out.status = FAILED
            /\ (cfg.min_length <= L /\ L <= cfg.max_length) =>
                   /\ probe.out.status = PASSED
                   /\ probe.out.modified_content = Some(probe.input_text)
            /\ (cfg.min_length <= L /\ L > cfg.max_length) =>
                   IF ~cfg.truncate \/ cfg.max_length - Len(cfg.truncate_suffix) <= 0
                   THEN probe.out.status = FAILED
                   ELSE /\ probe.out.status = WARNING
                        /\ probe.out.modified_content # None
                        /\ probe.out.modified_content # Some(probe.input_text)

\* a text with whitespace on both sides whose trimmed length is in range
\* while its own length is not
C17_Witness ==
    /\ Validated
    /\ probe.input_text = <<" ", "a", "a", " ">>
    /\ probe.guardrail.cfg.min_length = 2
    /\ probe.guardrail.cfg.max_length = 2
    /\ probe.guardrail.cfg.truncate
    /\ probe.out.status = PASSED
    /\ probe.out.modified_content = Some(<<" ", "a", "a", " ">>)

\* C18: when the trimmed text is longer than max_length, truncate is on and
\* max_length > len(suffix), the returned content has exactly max_length
\* characters and ends with the suffix.
C18_TruncatedLength ==
    (/\ Validated
     /\ TrimmedLength(probe.input_text) > probe.guardrail.cfg.max_length
     /\ probe.guardrail.cfg.truncate
     /\ probe.guardrail.cfg.max_length > Len(probe.guardrail.cfg.truncate_suffix)) =>
        LET returned == content(probe.out)
            suffix == probe.guardrail.cfg.truncate_suffix
        IN  /\ Len(returned) = probe.guardrail.cfg.max_length
            /\ SubSeq(returned, Len(returned) - Len(suffix) + 1, Len(returned)) = suffix

C18_Witness ==
    /\ Validated
    /\ probe.input_text = <<"a", "a", " ", "a", "a", "a">>
    /\ probe.guardrail.cfg.max_length = 4
    /\ probe.guardrail.cfg.truncate_suffix = <<".", ".", ".">>
    /\ probe.guardrail.cfg.min_length = 1
    /\ probe.out.status = WARNING
    /\ content(probe.out) = <<"a", ".", ".", ".">>

---------------------------------------------------------------------------
\* PIIFilterGuardrail called directly (ComponentSpec)

\* a non-strict filter found PII in the text and masked it
Masked ==
    /\ probe.op = "filter"
    /\ ~probe.guardrail.cfg.strict_mode
    /\ probe.detections # <<>>

\* no two detections share a character
NonOverlapping(detections) ==
    \A i, j \in 1..Len(detections) :
        i # j => \/ detections[i].end <= detections[j].start
                 \/ detections[j].end <= detections[i].start

\* str.count(sub) from offset pos on, for a sub that is not empty
RECURSIVE Count(_, _, _)
Count(text, sub, pos) ==
    IF pos + Len(sub) > Len(text) THEN 0
    ELSE IF SubSeq(text, pos + 1, pos + Len(sub)) = sub
    THEN 1 + Count(text, sub, pos + Len(sub))
    ELSE Count(text, sub, pos + 1)

\* the characters of text that are in none of the spans
OutsideChars(text, detections) ==
    {text[p + 1] : p \in {q \in 0..(Len(text) - 1) :
                            \A i \in 1..Len(detections) :
                                q < detections[i].start \/ q >= detections[i].end}}

\* text from offset pos on with every span replaced by the token, the
\* characters between the spans as they are
RECURSIVE Rebuild(_, _, _, _)
Rebuild(text, pos, detections, token) ==
    LET ahead == {i \in 1..Len(detections) : detections[i].start >= pos}
    IN  IF ahead = {} THEN Suffix(text, pos)
        ELSE LET first == CHOOSE i \in ahead :
                              \A j \in ahead : detections[i].start <= detections[j].start
             IN  SubSeq(text, pos + 1, detections[first].start) \o token
                     \o Rebuild(text, detections[first].end, detections, token)

\* C19 (as stated): when the k detected spans do not overlap, the masked
\* text has exactly k occurrences of the replacement token and keeps the
\* characters outside the spans unchanged and in order.
C19_ExactlyK ==
    (Masked /\ NonOverlapping(probe.detections)) =>
        /\ Count(content(probe.out), probe.guardrail.cfg.replacement, 0)
               = Len(probe.detections)
        /\ content(probe.out)
               = Rebuild(probe.output_text, 0, probe.detections,
                         probe.guardrail.cfg.replacement)

\* C19 (amended): when the k detected spans do not overlap, the masked text
\* is the text with each span replaced by one copy of the replacement token,
\* the characters outside the spans unchanged and in order; the token occurs
\* at least k times in it, and exactly k times when none of its characters
\* occurs in the text outside the spans.
C19_SpansReplaced ==
    (Masked /\ NonOverlapping(probe.detections)) =>
        /\ content(probe.out)
               = Rebuild(probe.output_text, 0, probe.detections,
                         probe.guardrail.cfg.replacement)
        /\ Count(content(probe.out), probe.guardrail.cfg.replacement, 0)
               >= Len(probe.detections)
        /\ (Range(probe.guardrail.cfg.replacement)
                \cap OutsideChars(probe.output_text, probe.detections) = {}) =>
               Count(content(probe.out), probe.guardrail.cfg.replacement, 0)
                   = Len(probe.detections)

\* "a@b.co 1234567890": two spans, masked from the end of the text backwards
C19_Witness ==
    /\ Masked
    /\ NonOverlapping(probe.detections)
    /\ Len(probe.detections) = 2
    /\ probe.detections[1].type = "email"
    /\ probe.detections[2].type = "phone"
    /\ probe.detections[1].start < probe.detections[2].start
    /\ probe.guardrail.cfg.replacement # <<"#">>
    /\ Count(content(probe.out), probe.guardrail.cfg.replacement, 0) = 2
    /\ OutsideChars(probe.output_text, probe.detections) = {" "}

\* C20: filter applied, with the same configuration, to a text it has
\* masked detects nothing and returns the text unchanged (for a replacement
\* token that matches none of the configured patterns).
C20_Idempotent ==
    (/\ probe.op = "filter_again"
     /\ detect_pii(probe.guardrail.cfg, probe.guardrail.cfg.replacement) = <<>>) =>
        /\ probe.detections = <<>>
        /\ probe.out.modified_content = Some(probe.output_text)

\* the character at offset q of the text is in one of the spans
Covered(detections, q) ==
    \E i \in 1..Len(detections) : detections[i].start <= q /\ q < detections[i].end

\* the first offset from pos on that is in no span, the length of the text
\* when there is none
RunEnd(text, detections, pos) ==
    LET free == {q \in pos..(Len(text) - 1) : ~Covered(detections, q)}
    IN  IF free = {} THEN Len(text) ELSE CHOOSE q \in free : \A r \in free : q <= r

\* k copies of the token
RECURSIVE Repeat(_, _)
Repeat(token, k) == IF k = 0 THEN <<>> ELSE token \o Repeat(token, k - 1)

\* masked is text from offset pos on with every character in no span kept,
\* unchanged and in order, and every run of characters in spans replaced by
\* one or more copies of the token
RECURSIVE KeepsUncovered(_, _, _, _, _)
KeepsUncovered(masked, text, pos, detections, token) ==
    IF pos >= Len(text) THEN masked = <<>>
    ELSE IF ~Covered(detections, pos)
    THEN /\ masked # <<>>
         /\ Head(masked) = text[pos + 1]
         /\ KeepsUncovered(Tail(masked), text, pos + 1, detections, token)
    ELSE \E k \in 1..Len(detections) :
             /\ Len(masked) >= k * Len(token)
             /\ SubSeq(masked, 1, k * Len(token)) = Repeat(token, k)
             /\ KeepsUncovered(Suffix(masked, k * Len(token)), text,
                               RunEnd(text, detections, pos), detections, token)

\* C30: for any spans detected in a text, overlapping and nested ones
\* included, non-strict masking removes every character covered by some span
\* and keeps every character covered by no span, unchanged and in order.
C30_CoveredRemoved ==
    Masked => KeepsUncovered(content(probe.out), probe.output_text, 0,
                             probe.detections, probe.guardrail.cfg.replacement)

\* the key is in the metadata of the probed result, with that value
MetadataHas(key, value) ==
    /\ probe.out.metadata # None
    /\ key \in DictKeys(probe.out.metadata[1])
    /\ DictGet(probe.out.metadata[1], key) = value

\* the metadata's pii_summary gives, for each type detected and no other,
\* the number of spans of that type
SummaryCounts(spans) ==
    LET summary == DictGet(probe.out.metadata[1], "pii_summary")
    IN  /\ DictKeys(summary) = {spans[i].type : i \in 1..Len(spans)}
        /\ Len(summary) = Cardinality(DictKeys(summary))
        /\ \A k \in 1..Len(summary) :
               summary[k][2]
                   = Cardinality({i \in 1..Len(spans) : spans[i].type = summary[k][1]})

\* the probed result is that of a text with the given spans
FilterOutcome(cfg, text, spans) ==
    /\ (/\ probe.out.status = PASSED
        /\ probe.out.modified_content = Some(text)
        /\ MetadataHas("pii_detected", FALSE)
        /\ MetadataHas("pii_count", 0)) <=> spans = <<>>
    /\ spans # <<>> =>
           /\ IF cfg.strict_mode
              THEN probe.out.status = BLOCKED /\ probe.out.modified_content = None
              ELSE /\ probe.out.status = WARNING
                   /\ probe.out.modified_content = Some(mask_pii(cfg, text, spans))
           /\ MetadataHas("pii_detected", TRUE)
           /\ MetadataHas("pii_count", Len(spans))
           /\ MetadataHas("detections", spans)
           /\ SummaryCounts(spans)

C24_OriginalInputContext ==
    (Called /\ call.output_run # None) =>
        \A k \in 1..Len(call.output_run[1].calls) :
            call.output_run[1].calls[k].input_text = call.user_input[1]

\* the input guardrails rewrote the input, and an output guardrail ran
C24_Witness ==
    /\ Called
    /\ call.adapter_arg # None
    /\ call.adapter_arg # call.user_input
    /\ call.output_run # None
    /\ call.output_run[1].calls # <<>>
    /\ call.output_run[1].calls[1].input_text = call.user_input[1]

\* the run went through its whole list: the engine is enabled and no
\* fail-fast return ended the loop
RanToEnd(r) == enabled /\ (fail_fast => NoFailureIn(r))

\* the metadata of the results of the first k invocations, merged in order
RECURSIVE MergedMetadata(_, _)
MergedMetadata(r, k) ==
    IF k = 0 THEN EmptyDict
    ELSE IF ~CheckAt(r, k).raised /\ CheckAt(r, k).result[1].metadata # None
    THEN DictUpdate(MergedMetadata(r, k - 1), CheckAt(r, k).result[1].metadata[1])
    ELSE MergedMetadata(r, k - 1)

\* C25: the metadata of the result of a pipeline that ran to the end is the
\* merge, in execution order, of the metadata of every invoked guardrail's
\* result that carries metadata, whatever its status, later values replacing
\* earlier ones under the same key.
C25_MetadataMerged ==
    \A side \in Sides :
        RanToEnd(RunOf(side)) =>
            RunOf(side).result.metadata
                = Some(MergedMetadata(RunOf(side), Len(RunOf(side).calls)))

\* C26: the invoke adapter gives invoke a payload that maps the configured
\* input key (default "input") to the text given to chat and also holds
\* every extra keyword argument; from a mapping result it returns the value
\* under the configured output key, otherwise the string form of the result.
C26_InvokePayload ==
    (probe.op = "invoke_chat" /\ Truthy(InvokeKeys(probe.config).input_key)) =>
        LET keys == InvokeKeys(probe.config)
            payload == probe.out.payload
        IN  /\ payload.type = "dict"
            /\ keys.input_key[1] \in DictKeys(payload.items)
            /\ DictGet(payload.items, keys.input_key[1]) = PyStr(probe.user_input)
            /\ \A i \in 1..Len(probe.kwargs) :
                   /\ probe.kwargs[i][1] \in DictKeys(payload.items)
                   /\ DictGet(payload.items, probe.kwargs[i][1]) = probe.kwargs[i][2]
            /\ probe.out.returned
                   = IF /\ probe.result.type = "dict"
                        /\ keys.output_key # None
                        /\ keys.output_key[1] \in DictKeys(probe.result.items)
                     THEN Str(DictGet(probe.result.items, keys.output_key[1]))
                     ELSE Str(probe.result)

\* C29: the text LengthValidator truncation produces is accepted by the same
\* validator: validate(c) of the truncated content c of a WARNING result
\* returns PASSED, that is min_length <= len(trim(c)) <= max_length.
C29_TruncatedAccepted ==
    probe.op = "validate_again" =>
        /\ probe.out.status = PASSED
        /\ probe.guardrail.cfg.min_length <= TrimmedLength(probe.input_text)
        /\ TrimmedLength(probe.input_text) <= probe.guardrail.cfg.max_length

\* a direct call that returned a GuardrailResult
ResultReturned == probe.op \in {"validate", "validate_again", "filter", "filter_again"}

\* C27: every GuardrailResult is in exactly one of two classes: is_failure
\* holds exactly for status FAILED and BLOCKED, and is_success holds exactly
\* for status PASSED and WARNING.
C27_TwoClasses ==
    ResultReturned =>
        /\ is_failure(probe.out) <=> probe.out.status \in {FAILED, BLOCKED}
        /\ is_success(probe.out) <=> probe.out.status \in {PASSED, WARNING}
        /\ is_success(probe.out) # is_failure(probe.out)

\* the positions of the guardrails run r invoked
InvokedIn(r) == {r.calls[j].index : j \in 1..Len(r.calls)}

\* run r went through the list as the engine holds it now: each invocation
\* is the check of the guardrail now at its position, and every enabled
\* guardrail of the list was invoked unless an earlier one failed or raised
WentThroughCurrentList(r) ==
    /\ \A j \in 1..Len(r.calls) :
           /\ r.calls[j].index \in EnabledIndices(r.guardrails)
           /\ CheckAt(r, j)
                  = IF r.side = "input"
                    THEN validate(r.guardrails[r.calls[j].index], r.calls[j].text)
                    ELSE filter(r.guardrails[r.calls[j].index], r.calls[j].text,
                                r.input_text)
    /\ \A i \in EnabledIndices(r.guardrails) :
           \/ i \in InvokedIn(r)
           \/ \E j \in 1..Len(r.calls) :
                  r.calls[j].index < i /\ (FailedAt(r, j) \/ RaisedAt(r, j))

\* C28: a GuardedAgent holds its engine, not a copy of it: a chat call of an
\* agent wrapped earlier applies the guardrails registered on the engine
\* since, and all agents wrapped by one engine see the same lists.
C28_LiveEngine ==
    /\ \A a, b \in 1..Len(wrapped) : engine_lists(wrapped[a]) = engine_lists(wrapped[b])
    /\ (Called /\ enabled) =>
           /\ Sides # {}
           /\ \A side \in Sides : WentThroughCurrentList(RunOf(side))

\* two agents wrapped at different times; the chat of the one wrapped before
\* any guardrail was registered invokes a guardrail registered afterwards
C28_Witness ==
    /\ Called
    /\ enabled
    /\ Len(wrapped) = 2
    /\ chatting = 1
    /\ wrapped[1].at_wrap = NoneAdded
    /\ wrapped[2].at_wrap # NoneAdded
    /\ Len(input_guardrails) > Len(wrapped[2].at_wrap.input)
    /\ Len(input_guardrails) \in InvokedIn(RunOf("input"))

ChatOrder == <<"input_guardrails", "adapter", "output_guardrails">>

\* C10: the steps of a chat call are the input pipeline, the adapter, the
\* output pipeline, in this order and each at most once; a call that raises
\* ends at the step that failed, with no step repeated after it.
C10_StepOrder ==
    Called =>
        /\ \E n \in 1..3 : call.steps = SubSeq(ChatOrder, 1, n)
        /\ (call.input_run # None /\ InputResult.status \in Failure)
           => call.steps = SubSeq(ChatOrder, 1, 1)
        /\ (call.agent # None /\ call.agent[1].raised)
           => call.steps = SubSeq(ChatOrder, 1, 2)
        /\ call.output_run # None => call.steps = ChatOrder
        /\ call.status = "returned" => call.steps = ChatOrder
        /\ (call.steps = ChatOrder) = (call.output_run # None)
        /\ ("adapter" \in Range(call.steps)) = (call.agent # None)

\* the agent raised: the call ended after one adapter invocation
C10_Witness ==
    /\ Called
    /\ call.status = "raised"
    /\ call.agent # None
    /\ call.agent[1].raised
    /\ call.steps = <<"input_guardrails", "adapter">>
    /\ call.error[1].text[1] = "Agent execution failed: "

====
